---- MODULE Spec2Model ----
(***************************************************************************)
(* Structural parser of the legal-document ingestion pipeline              *)
(* (backend/ingestions/parser/core.py, LegalPDFParser).                    *)
(*                                                                         *)
(* A line ("chunk") is a sequence of tokens; a token is a maximal run of   *)
(* characters of one class (a keyword, a digit run, a bracket, a blank).   *)
(* The regular expressions of pdf_patterns.py are predicates over token    *)
(* sequences; the text buffer is the token sequence the code concatenates. *)
(***************************************************************************)
EXTENDS Integers, Sequences, FiniteSets, TLC

VARIABLES
    parsing_rules,          \* the ParsingRules value handed to parse
    header_lines_to_skip,   \* number of leading lines of a page that are sliced off
    state,                  \* ParseState of the running parse call
    legal_document,         \* items emitted so far
    pc,                     \* "pages": head of the page loop, "chunks": inside a page, "done": returned, "error": raised
    pos,                    \* lines of the current page already passed, capped at header_lines_to_skip
    nlines,                 \* lines consumed so far (bounds the run)
    branch,                 \* the branch of the loop body the last processed line took
    end_seen,               \* history: a line equal to the end marker has been processed
    articles_ascending,     \* history: no numbered-article line so far carried a number below the current article
    prose_run,              \* history: the input of this call is one numbered article followed by prose only
    header_chunk,           \* history: the page-header line sliced off by the last step, if it sliced one
    fresh,                  \* reference: ParseState and output of a new parser object given the lines of this call
    previous_rules,         \* history: the section this parser object parsed in its previous call
    stretch,                \* history: the number of items emitted before the latest article start
    chunker,                \* the frame of make_chunks: arguments, locals and position
    validator,              \* the frame of the validation calls: the items, the expected total and each outcome
    main,                   \* the frame of a pipeline run (main): inputs, position, files written, exit status
    gemini,                 \* the frame of one GeminiClient operation under its retry decorator
    store,                  \* the SessionStore, the ChatSession objects it has created, and the clock
    chat                    \* the frames of the ChatService.chat calls in flight

parser_vars ==
    <<parsing_rules, header_lines_to_skip, state, legal_document, pc, pos, nlines, branch, end_seen,
      articles_ascending, prose_run, header_chunk, fresh, previous_rules, stretch>>

app_vars == <<gemini, store, chat>>

vars == <<parser_vars, chunker, validator, main, app_vars>>

-----------------------------------------------------------------------------
(* Bounds of the exploration *)

MaxLines == 4
MaxNumber == 2
MaxHeader == 1
MaxTextLen == 6
MaxChunkTokens == 3
MaxOverlap == 3
MaxArticleLines == 6
MaxItems == 3

-----------------------------------------------------------------------------
(* Tokens *)

None == -1

SP == " "
NL == "\n"
Whitespace == {SP, NL}

Numbers == 0 .. MaxNumber
DigitTokens == {ToString(n) : n \in Numbers}

\* int(s) of a digit run
ToInt(tok) == CHOOSE n \in Numbers : ToString(n) = tok

\* characters str.isdigit() accepts and int() rejects (superscript digits, as of a footnote mark)
SuperscriptDigits == {"²"}

\* str.isdigit(): non-empty and digits only
IsDigit(chunk) == Len(chunk) = 1 /\ chunk[1] \in DigitTokens \cup SuperscriptDigits

\* int(chunk) raises ValueError
IntRaises(chunk) == Len(chunk) # 1 \/ chunk[1] \notin DigitTokens

UpperWords == {"I"}
CapitalizedWords == {"Kesatu"}
LowerLetters == {"a"}
Words == {"teks"}
LetterStart == UpperWords \cup CapitalizedWords \cup LowerLetters \cup Words \cup {"Pasal", "Ayat", "Huruf", "BAB", "Bagian"}

\* str.split(): the maximal runs of non-blank tokens
Split(chunk) == SelectSeq(chunk, LAMBDA t : t \notin Whitespace)

RECURSIVE LStrip(_)
LStrip(s) == IF s # <<>> /\ Head(s) \in Whitespace THEN LStrip(Tail(s)) ELSE s

RECURSIVE RStrip(_)
RStrip(s) == IF s # <<>> /\ s[Len(s)] \in Whitespace THEN RStrip(SubSeq(s, 1, Len(s) - 1)) ELSE s

\* str.strip()
Strip(s) == RStrip(LStrip(s))

-----------------------------------------------------------------------------
(* pdf_patterns.py: re.match of each pattern on a line *)

PAGE_PATTERN(c) ==
    /\ Len(c) = 5
    /\ c[1] = "-" /\ c[2] \in Whitespace /\ c[3] \in DigitTokens /\ c[4] \in Whitespace /\ c[5] = "-"

CHAPTER_PATTERN(c) ==
    Len(c) = 3 /\ c[1] = "BAB" /\ c[2] \in Whitespace /\ c[3] \in UpperWords

SECTION_PATTERN(c) ==
    Len(c) = 3 /\ c[1] = "Bagian" /\ c[2] \in Whitespace /\ c[3] \in CapitalizedWords

SUBSECTION_PATTERN(c) ==
    Len(c) = 3 /\ c[1] = "Paragraf" /\ c[2] \in Whitespace /\ c[3] \in DigitTokens

ARTICLE_PATTERN(c) ==
    Len(c) = 3 /\ c[1] = "Pasal" /\ c[2] \in Whitespace /\ c[3] \in DigitTokens

ARTICLE_WO_NUMBER_PATTERN(c) ==
    c = <<"Pasal">>

BODY_PARAGRAPH_PATTERN(c) ==
    Len(c) = 3 /\ c[1] = "(" /\ c[2] \in DigitTokens /\ c[3] = ")"

ELUCIDATION_PARAGRAPH_PATTERN(c) ==
    /\ Len(c) = 5
    /\ c[1] = "Ayat" /\ c[2] = SP /\ c[3] = "(" /\ c[4] \in DigitTokens /\ c[5] = ")"

BODY_ORDERED_LIST_PATTERN(c) ==
    /\ Len(c) >= 2
    /\ c[1] \in LowerLetters \cup DigitTokens
    /\ c[2] = "."
    /\ \/ Len(c) = 2
       \/ Len(c) >= 4 /\ c[3] \in Whitespace /\ c[4] \in LetterStart

ELUCIDATION_ORDERED_LIST_PATTERN(c) ==
    \/ BODY_ORDERED_LIST_PATTERN(c)
    \/ /\ Len(c) >= 3
       /\ c[1] = "Huruf" /\ c[2] \in Whitespace /\ c[3] \in LowerLetters
       /\ \/ Len(c) = 3
          \/ Len(c) >= 5 /\ c[4] \in Whitespace /\ c[5] \in LetterStart

TRIPPLE_DOTS_PATTERN(c) ==
    Len(c) >= 2 /\ c[Len(c)] = "..."

TRIPPLE_DOT_SPACES_PATTERN(c) ==
    Len(c) >= 2 /\ c[Len(c)] = ". . ."

END_OF_BODY_MARKER == <<"Disahkan di Jakarta">>
END_OF_ELUCIDATION_MARKER == <<"TAMBAHAN LEMBARAN NEGARA REPUBLIK INDONESIA NOMOR 5025">>

\* pattern.match(chunk) for a pattern held in a ParsingRules field
Match(pattern, c) ==
    CASE pattern = "PAGE_PATTERN" -> PAGE_PATTERN(c)
      [] pattern = "CHAPTER_PATTERN" -> CHAPTER_PATTERN(c)
      [] pattern = "SECTION_PATTERN" -> SECTION_PATTERN(c)
      [] pattern = "SUBSECTION_PATTERN" -> SUBSECTION_PATTERN(c)
      [] pattern = "ARTICLE_PATTERN" -> ARTICLE_PATTERN(c)
      [] pattern = "ARTICLE_WO_NUMBER_PATTERN" -> ARTICLE_WO_NUMBER_PATTERN(c)
      [] pattern = "BODY_PARAGRAPH_PATTERN" -> BODY_PARAGRAPH_PATTERN(c)
      [] pattern = "ELUCIDATION_PARAGRAPH_PATTERN" -> ELUCIDATION_PARAGRAPH_PATTERN(c)
      [] pattern = "BODY_ORDERED_LIST_PATTERN" -> BODY_ORDERED_LIST_PATTERN(c)
      [] pattern = "ELUCIDATION_ORDERED_LIST_PATTERN" -> ELUCIDATION_ORDERED_LIST_PATTERN(c)
      [] pattern = "TRIPPLE_DOTS_PATTERN" -> TRIPPLE_DOTS_PATTERN(c)
      [] pattern = "TRIPPLE_DOT_SPACES_PATTERN" -> TRIPPLE_DOT_SPACES_PATTERN(c)

body_parsing_rules ==
    [ end_marker |-> END_OF_BODY_MARKER,
      paragraph_pattern |-> "BODY_PARAGRAPH_PATTERN",
      ordered_list_pattern |-> "BODY_ORDERED_LIST_PATTERN",
      article_pattern |-> "ARTICLE_PATTERN",
      article_wo_number_pattern |-> "ARTICLE_WO_NUMBER_PATTERN",
      section_marker_patterns |-> {"CHAPTER_PATTERN", "SECTION_PATTERN", "SUBSECTION_PATTERN"},
      skip_patterns |-> {"PAGE_PATTERN", "TRIPPLE_DOTS_PATTERN", "TRIPPLE_DOT_SPACES_PATTERN"} ]

elucidation_parsing_rules ==
    [ end_marker |-> END_OF_ELUCIDATION_MARKER,
      paragraph_pattern |-> "ELUCIDATION_PARAGRAPH_PATTERN",
      ordered_list_pattern |-> "ELUCIDATION_ORDERED_LIST_PATTERN",
      article_pattern |-> "ARTICLE_PATTERN",
      article_wo_number_pattern |-> "ARTICLE_WO_NUMBER_PATTERN",
      section_marker_patterns |-> {"CHAPTER_PATTERN", "SECTION_PATTERN", "SUBSECTION_PATTERN"},
      skip_patterns |-> {"PAGE_PATTERN", "TRIPPLE_DOTS_PATTERN", "TRIPPLE_DOT_SPACES_PATTERN"} ]

-----------------------------------------------------------------------------
(* The lines a page may hold *)

Num(n) == ToString(n)

\* lines every section may hold: article markers, bare numbers, a page footer, a
\* continuation line that also looks like a list item, a chapter header, the bare
\* article keyword, a list item, prose, a superscript digit, a blank line and the
\* empty line
CommonLines ==
    {<<"Pasal", SP, Num(n)>> : n \in Numbers}
        \cup {<<Num(n)>> : n \in Numbers}
        \cup { <<"-", SP, "1", SP, "-">>,
               <<"a", ".", SP, "teks", "...">>,
               <<"BAB", SP, "I">>,
               <<"Pasal">>,
               <<"a", ".">>,
               <<"teks">>,
               <<"²">>,
               <<SP>>,
               <<>> }

BodyLines ==
    CommonLines \cup {<<"(", Num(n), ")">> : n \in Numbers} \cup {END_OF_BODY_MARKER}

ElucidationLines ==
    CommonLines \cup {<<"Ayat", SP, "(", Num(n), ")">> : n \in Numbers} \cup {END_OF_ELUCIDATION_MARKER}

\* the lines of a section parsed under the given rules
Lines(rules) == IF rules = body_parsing_rules THEN BodyLines ELSE ElucidationLines

-----------------------------------------------------------------------------
(* core.py: ParseState and the helpers of LegalPDFParser *)

ParseState ==
    [ article_number |-> None,
      paragraph_number |-> None,
      text |-> <<>>,
      in_article_section |-> FALSE,
      prev_was_article_wo_number |-> FALSE ]

LegalDocumentItem(article_number, paragraph_number, text) ==
    [article_number |-> article_number, paragraph_number |-> paragraph_number, text |-> text]

\* truth value of an Optional[int] used as a condition
Truthy(n) == n # None /\ n # 0

\* chunk.isdigit() and (... int(chunk) ...): int is applied in either disjunct once
\* isdigit holds, and raises on a digit character that is no decimal digit
_validate_article_marker_raises(chunk, st) ==
    IsDigit(chunk) /\ IntRaises(chunk)

\* variant: the number is accepted only while inside an article
Mutant_validate_article_marker_InsideOnly(chunk, st) ==
    /\ st.in_article_section
    /\ IsDigit(chunk)
    /\ \/ st.article_number # None /\ ToInt(chunk[1]) = st.article_number + 1
       \/ st.article_number = None /\ ToInt(chunk[1]) = 1

_validate_article_marker_for_article_wo_number(chunk, st) ==
    /\ IsDigit(chunk)
    /\ \/ st.article_number # None /\ ToInt(chunk[1]) = st.article_number + 1
       \/ st.article_number = None /\ ToInt(chunk[1]) = 1

\* variant: the number of the open paragraph is accepted once more
Mutant_validate_paragraph_marker_Repeat(paragraph_number_candidate, st) ==
    \/ st.paragraph_number = None /\ paragraph_number_candidate = 1
    \/ st.paragraph_number # None /\ paragraph_number_candidate \in {st.paragraph_number, st.paragraph_number + 1}

\* variant: 1 is accepted whether or not a paragraph is open
Mutant_validate_paragraph_marker_Restart(paragraph_number_candidate, st) ==
    \/ paragraph_number_candidate = 1
    \/ st.paragraph_number # None /\ paragraph_number_candidate = st.paragraph_number + 1

_validate_paragraph_marker(paragraph_number_candidate, st) ==
    \/ st.paragraph_number = None /\ paragraph_number_candidate = 1
    \/ st.paragraph_number # None /\ paragraph_number_candidate = st.paragraph_number + 1

\* variant: an empty chunk leaves the buffer as it is
Mutant_append_text_EmptyChunkKeepsBuffer(buffer, chunk, is_ordered_list) ==
    IF chunk = <<>> THEN buffer
    ELSE IF is_ordered_list
         THEN (IF buffer # <<>> THEN buffer \o <<NL>> \o chunk ELSE chunk)
         ELSE (IF buffer # <<>> THEN buffer \o <<SP>> \o chunk ELSE chunk)

\* core.py 102-109: `not chunk` holds for the empty string and for None, `buffer` is
\* false for both; either is the empty sequence here
_append_text(buffer, chunk, is_ordered_list) ==
    IF chunk = <<>> THEN <<>>
    ELSE IF is_ordered_list
         THEN (IF buffer # <<>> THEN buffer \o <<NL>> \o chunk ELSE chunk)
         ELSE (IF buffer # <<>> THEN buffer \o <<SP>> \o chunk ELSE chunk)

\* variant: the buffer is tested and stored as it stands
Mutant_flush_buffer_Untrimmed(doc, st) ==
    IF st.text # <<>>
    THEN Append(doc, LegalDocumentItem(st.article_number, st.paragraph_number, st.text))
    ELSE doc

\* variant: the item is inserted in front of the list
Mutant_flush_buffer_Prepend(doc, st) ==
    IF Strip(st.text) # <<>>
    THEN <<[article_number |-> st.article_number, paragraph_number |-> st.paragraph_number, text |-> Strip(st.text)]>> \o doc
    ELSE doc

_flush_buffer(doc, st) ==
    IF Strip(st.text) # <<>>
    THEN Append(doc, LegalDocumentItem(st.article_number, st.paragraph_number, Strip(st.text)))
    ELSE doc

\* the result of one pass through the loop body
Outcome(st, doc, b) == [state |-> st, legal_document |-> doc, branch |-> b]

\* variant: the item of the closed article takes the place of the last item of the output
Mutant_StartArticle_LastItemReplaced(st, doc, number, b) ==
    Outcome([st EXCEPT !.article_number = number,
                       !.paragraph_number = None,
                       !.text = <<>>,
                       !.in_article_section = TRUE],
            IF Truthy(st.article_number) THEN _flush_buffer(SubSeq(doc, 1, Len(doc) - 1), st) ELSE doc,
            b)

\* core.py 138-143 and 157-162: flush unless this is the first article, then open the article
StartArticle(st, doc, number, b) ==
    Outcome([st EXCEPT !.article_number = number,
                       !.paragraph_number = None,
                       !.text = <<>>,
                       !.in_article_section = TRUE],
            IF Truthy(st.article_number) THEN _flush_buffer(doc, st) ELSE doc,
            b)

\* int(paragraph_match[0].replace("Ayat ", "").replace("(", "").replace(")", ""))
ParagraphCandidate(chunk) ==
    LET noAyat == IF Len(chunk) >= 2 /\ chunk[1] = "Ayat" /\ chunk[2] = SP
                  THEN SubSeq(chunk, 3, Len(chunk)) ELSE chunk
        noParens == SelectSeq(noAyat, LAMBDA t : t \notin {"(", ")"})
    IN ToInt(noParens[1])

\* variant: a rejected paragraph marker is kept as content
Mutant_ParagraphOrContent_RejectedKept(rules, st, doc, chunk) ==
    IF Match(rules.paragraph_pattern, chunk) /\ _validate_paragraph_marker(ParagraphCandidate(chunk), st)
    THEN Outcome([st EXCEPT !.paragraph_number = ParagraphCandidate(chunk), !.text = <<>>],
                 IF Truthy(st.paragraph_number) THEN _flush_buffer(doc, st) ELSE doc,
                 "new_paragraph")
    ELSE IF st.in_article_section
         THEN Outcome([st EXCEPT !.text = _append_text(st.text, chunk, Match(rules.ordered_list_pattern, chunk))],
                      doc, "append")
         ELSE Outcome(st, doc, "dropped")

\* variant: an accepted paragraph marker also enters the article's content region
Mutant_ParagraphOrContent_MarkerEntersArticle(rules, st, doc, chunk) ==
    IF Match(rules.paragraph_pattern, chunk)
    THEN IF _validate_paragraph_marker(ParagraphCandidate(chunk), st)
         THEN Outcome([st EXCEPT !.paragraph_number = ParagraphCandidate(chunk), !.text = <<>>,
                                 !.in_article_section = TRUE],
                      IF Truthy(st.paragraph_number) THEN _flush_buffer(doc, st) ELSE doc,
                      "new_paragraph")
         ELSE Outcome(st, doc, "paragraph_rejected")
    ELSE IF st.in_article_section
         THEN Outcome([st EXCEPT !.text = _append_text(st.text, chunk, Match(rules.ordered_list_pattern, chunk))],
                      doc, "append")
         ELSE Outcome(st, doc, "dropped")

\* core.py 171-188: paragraph marker, or content
ParagraphOrContent(rules, st, doc, chunk) ==
    IF Match(rules.paragraph_pattern, chunk)
    THEN IF _validate_paragraph_marker(ParagraphCandidate(chunk), st)
         THEN Outcome([st EXCEPT !.paragraph_number = ParagraphCandidate(chunk), !.text = <<>>],
                      IF Truthy(st.paragraph_number) THEN _flush_buffer(doc, st) ELSE doc,
                      "new_paragraph")
         ELSE Outcome(st, doc, "paragraph_rejected")
    ELSE IF st.in_article_section
         THEN Outcome([st EXCEPT !.text = _append_text(st.text, chunk, Match(rules.ordered_list_pattern, chunk))],
                      doc, "append")
         ELSE Outcome(st, doc, "dropped")

\* core.py 154-169: the line after a bare article keyword
AfterArticleWoNumber(rules, st, doc, chunk) ==
    LET st1 == [st EXCEPT !.prev_was_article_wo_number = FALSE]
    IN IF _validate_article_marker_raises(chunk, st1)
       THEN Outcome(st1, doc, "ValueError")
       ELSE IF _validate_article_marker_for_article_wo_number(chunk, st1)
       THEN StartArticle(st1, doc, ToInt(chunk[1]), "article_after_wo_number")
       ELSE LET r == ParagraphOrContent(rules, st1, doc, <<"Pasal", SP>> \o chunk)
            IN [r EXCEPT !.branch = "pasal_" \o r.branch]

\* variant: the header also flushes and clears the buffer
Mutant_SectionMarker_Flush(st, doc) ==
    Outcome([st EXCEPT !.in_article_section = FALSE, !.text = <<>>], _flush_buffer(doc, st), "section")

\* core.py 132-135: a chapter, section or subsection header leaves the article's content region
SectionMarker(st, doc) ==
    Outcome([st EXCEPT !.in_article_section = FALSE], doc, "section")

\* variant: the skip patterns are tried after the lookahead flag has been consumed
Mutant_ProcessChunk_SkipLate(rules, st, doc, chunk) ==
    IF chunk = rules.end_marker
    THEN Outcome(st, doc, "end")
    ELSE IF \E p \in rules.section_marker_patterns : Match(p, chunk)
    THEN SectionMarker(st, doc)
    ELSE IF Match(rules.article_pattern, chunk)
    THEN StartArticle(st, doc, ToInt(Split(chunk)[2]), "article")
    ELSE IF Match(rules.article_wo_number_pattern, chunk)
    THEN Outcome([st EXCEPT !.prev_was_article_wo_number = TRUE], doc, "article_wo_number")
    ELSE IF \E p \in rules.skip_patterns : Match(p, chunk)
    THEN Outcome([st EXCEPT !.prev_was_article_wo_number = FALSE], doc, "skip")
    ELSE IF st.prev_was_article_wo_number
    THEN AfterArticleWoNumber(rules, st, doc, chunk)
    ELSE ParagraphOrContent(rules, st, doc, chunk)

\* core.py 124-188: the body of the loop over the chunks of a page
ProcessChunk(rules, st, doc, chunk) ==
    IF chunk = rules.end_marker
    THEN Outcome(st, doc, "end")
    ELSE IF \E p \in rules.skip_patterns : Match(p, chunk)
    THEN Outcome(st, doc, "skip")
    ELSE IF \E p \in rules.section_marker_patterns : Match(p, chunk)
    THEN SectionMarker(st, doc)
    ELSE IF Match(rules.article_pattern, chunk)
    THEN StartArticle(st, doc, ToInt(Split(chunk)[2]), "article")
    ELSE IF Match(rules.article_wo_number_pattern, chunk)
    THEN Outcome([st EXCEPT !.prev_was_article_wo_number = TRUE], doc, "article_wo_number")
    ELSE IF st.prev_was_article_wo_number
    THEN AfterArticleWoNumber(rules, st, doc, chunk)
    ELSE ParagraphOrContent(rules, st, doc, chunk)

-----------------------------------------------------------------------------
(* parse(pages, parsing_rules) as a state machine *)

\* make_chunks is not running
IdleFrame ==
    [ pc |-> "idle", text |-> <<>>, max_chunk_tokens |-> 0, overlap_tokens |-> 0,
      tokens |-> <<>>, total_tokens |-> 0, start_idx |-> 0, chunks |-> <<>> ]

\* validate_result has not returned a report
NoReport ==
    [ raised |-> "none", total_articles |-> None, missing_articles |-> <<>>, missing_paragraphs |-> <<>>,
      duplicate_article_paragraphs |-> <<>> ]

\* no validation call is running
IdleValidation ==
    [ pc |-> "idle", legal_document |-> <<>>, expected_total_articles |-> 0,
      total_articles |-> None, missing_articles |-> <<>>,
      missing_paragraphs |-> [raised |-> "none", value |-> <<>>],
      duplicate_article_paragraphs |-> [raised |-> "none", value |-> <<>>],
      report |-> NoReport, is_valid_expected |-> None, valid |-> FALSE ]

\* no pipeline is running
IdleMain ==
    [ kind |-> "idle", pc |-> "idle", expected_total_articles |-> 0, body |-> <<>>, elucidation |-> <<>>,
      body_report |-> NoReport, elucidation_report |-> NoReport, chunk_type |-> "body", nlines |-> 0,
      all_chunks |-> <<>>, validation_passed |-> FALSE, written |-> <<>>, exit_status |-> None ]

\* no GeminiClient operation is running
IdleGemini == [pc |-> "idle", operation |-> "none", attempt_number |-> 0, raised |-> <<>>, outcome |-> "none"]

\* None where a session id or a session is expected
NoSession == "None"

\* no SessionStore has been built
IdleStore ==
    [ pc |-> "idle", ttl_hours |-> 0, now |-> 0, sessions |-> <<>>, objects |-> <<>>, expired |-> {},
      last |-> [op |-> "none", session_id |-> NoSession, known |-> FALSE, age |-> 0, objects |-> 0,
                result |-> NoSession] ]

\* no chat call has been made
IdleChat == <<>>

\* the backend application is not running
AppIdle == gemini = IdleGemini /\ store = IdleStore /\ chat = IdleChat

\* every pattern of the rules
AllPatterns(rules) ==
    rules.skip_patterns \cup rules.section_marker_patterns
        \cup {rules.article_pattern, rules.article_wo_number_pattern, rules.paragraph_pattern,
              rules.ordered_list_pattern}

\* a trimmed, non-empty line that is neither the end marker nor matched by any pattern
IsProseLine(rules, chunk) ==
    /\ chunk # <<>>
    /\ chunk[1] \notin Whitespace /\ chunk[Len(chunk)] \notin Whitespace
    /\ chunk # rules.end_marker
    /\ \A p \in AllPatterns(rules) : ~Match(p, chunk)

NoProseRun == [shape |-> "other", article |-> None, text |-> <<>>, split |-> FALSE]
EmptyInput == [shape |-> "start", article |-> None, text |-> <<>>, split |-> FALSE]

\* the shape of the input once the line has been read: a numbered article first, then
\* prose lines only, whose texts are joined by single spaces
ProseRunAfter(run, rules, chunk) ==
    IF run.shape = "start" /\ Match(rules.article_pattern, chunk)
    THEN [shape |-> "article_then_prose", article |-> ToInt(Split(chunk)[2]), text |-> <<>>, split |-> FALSE]
    ELSE IF run.shape = "article_then_prose" /\ IsProseLine(rules, chunk)
    THEN [run EXCEPT !.text = IF run.text = <<>> THEN chunk ELSE run.text \o <<SP>> \o chunk]
    ELSE NoProseRun

\* no page-header line was sliced off by the last step
NoLine == <<"(no line)">>

\* what a page-header line may be: the end marker, an article marker, a paragraph
\* marker, prose
HeaderLines(rules) ==
    { rules.end_marker,
      <<"Pasal", SP, Num(1)>>,
      IF rules = body_parsing_rules THEN <<"(", Num(1), ")">> ELSE <<"Ayat", SP, "(", Num(1), ")">>,
      <<"teks">> }

\* core.py 119-120: state = ParseState(); legal_document = []
FreshCall == [state |-> ParseState, legal_document |-> <<>>]

Init ==
    /\ parsing_rules \in {body_parsing_rules, elucidation_parsing_rules}
    /\ header_lines_to_skip \in 0 .. MaxHeader
    /\ state = ParseState
    /\ legal_document = <<>>
    /\ pc = "pages"
    /\ pos = 0
    /\ nlines = 0
    /\ branch = "none"
    /\ end_seen = FALSE
    /\ articles_ascending = TRUE
    /\ prose_run = EmptyInput
    /\ header_chunk = NoLine
    /\ fresh = FreshCall
    /\ previous_rules = "none"
    /\ stretch = 0
    /\ chunker = IdleFrame
    /\ validator = IdleValidation
    /\ main = IdleMain
    /\ AppIdle

\* variant: the buffer is flushed and emptied whenever a page is taken up
Mutant_NextPage_FlushesBuffer ==
    /\ pc \in {"pages", "chunks"}
    /\ pc' = "chunks"
    /\ pos' = 0
    /\ branch' = "page"
    /\ state' = [state EXCEPT !.text = <<>>]
    /\ legal_document' = _flush_buffer(legal_document, state)
    /\ prose_run' = IF prose_run.shape = "article_then_prose"
                    THEN [prose_run EXCEPT !.split = TRUE] ELSE prose_run
    /\ header_chunk' = NoLine
    /\ UNCHANGED <<parsing_rules, header_lines_to_skip, nlines, end_seen,
                   articles_ascending, fresh, previous_rules, stretch, chunker, validator, main, app_vars>>

\* for page_chunks in pages: the next page is taken up
NextPage ==
    /\ pc \in {"pages", "chunks"}
    /\ pc' = "chunks"
    /\ pos' = 0
    /\ branch' = "page"
    /\ prose_run' = IF prose_run.shape = "article_then_prose"
                    THEN [prose_run EXCEPT !.split = TRUE] ELSE prose_run
    /\ header_chunk' = NoLine
    /\ UNCHANGED <<parsing_rules, header_lines_to_skip, state, legal_document, nlines, end_seen,
                   articles_ascending, fresh, previous_rules, stretch, chunker, validator, main, app_vars>>

\* variant: a page-header line equal to the end marker ends the page
Mutant_SkipHeaderLine_EndMarkerBreaks ==
    /\ pc = "chunks"
    /\ pos < header_lines_to_skip
    /\ nlines < MaxLines
    /\ \E chunk \in HeaderLines(parsing_rules) :
          /\ header_chunk' = chunk
          /\ pc' = IF chunk = parsing_rules.end_marker THEN "pages" ELSE pc
    /\ pos' = pos + 1
    /\ nlines' = nlines + 1
    /\ branch' = "header"
    /\ UNCHANGED <<parsing_rules, header_lines_to_skip, state, legal_document, end_seen,
                   articles_ascending, prose_run, fresh, previous_rules, stretch, chunker, validator, main, app_vars>>

\* page_chunks[header_lines_to_skip:]: a leading line of the page is never looked at
SkipHeaderLine ==
    /\ pc = "chunks"
    /\ pos < header_lines_to_skip
    /\ nlines < MaxLines
    /\ \E chunk \in HeaderLines(parsing_rules) : header_chunk' = chunk
    /\ pos' = pos + 1
    /\ nlines' = nlines + 1
    /\ branch' = "header"
    /\ UNCHANGED <<parsing_rules, header_lines_to_skip, state, legal_document, pc, end_seen,
                   articles_ascending, prose_run, fresh, previous_rules, stretch, chunker, validator, main, app_vars>>

\* one pass through the loop body on a line drawn from `lines`, at most `budget` lines
\* per run; the end marker breaks out of the loop over this page only, and an exception
\* ends the call
ParseLine(lines, budget) ==
    /\ pc = "chunks"
    /\ pos >= header_lines_to_skip
    /\ nlines < budget
    /\ \E chunk \in lines :
          LET r == ProcessChunk(parsing_rules, state, legal_document, chunk)
              f == ProcessChunk(parsing_rules, fresh.state, fresh.legal_document, chunk)
          IN /\ state' = r.state
             /\ legal_document' = r.legal_document
             /\ branch' = r.branch
             /\ pc' = IF r.branch = "ValueError" THEN "error"
                      ELSE IF r.branch = "end" THEN "pages" ELSE "chunks"
             /\ end_seen' = (end_seen \/ r.branch = "end")
             /\ articles_ascending' =
                    (articles_ascending /\ (r.branch = "article" => r.state.article_number >= state.article_number))
             /\ prose_run' = ProseRunAfter(prose_run, parsing_rules, chunk)
             /\ fresh' = [state |-> f.state, legal_document |-> f.legal_document]
             /\ stretch' = IF r.branch \in {"article", "article_after_wo_number"}
                           THEN Len(r.legal_document) ELSE stretch
    /\ nlines' = nlines + 1
    /\ header_chunk' = NoLine
    /\ UNCHANGED <<parsing_rules, header_lines_to_skip, pos, previous_rules, chunker, validator, main, app_vars>>

ParseChunk == ParseLine(Lines(parsing_rules), MaxLines)

\* variant: the function returns without flushing the buffer
Mutant_Finish_NoFlush ==
    /\ pc \in {"pages", "chunks"}
    /\ pc' = "done"
    /\ branch' = "return"
    /\ header_chunk' = NoLine
    /\ fresh' = [fresh EXCEPT !.legal_document = _flush_buffer(fresh.legal_document, fresh.state)]
    /\ UNCHANGED <<parsing_rules, header_lines_to_skip, state, legal_document, pos, nlines, end_seen,
                   articles_ascending, prose_run, previous_rules, stretch, chunker, validator, main, app_vars>>

\* core.py 190-193: the pages are exhausted; flush the last item and return
Finish ==
    /\ pc \in {"pages", "chunks"}
    /\ legal_document' = _flush_buffer(legal_document, state)
    /\ pc' = "done"
    /\ branch' = "return"
    /\ header_chunk' = NoLine
    /\ fresh' = [fresh EXCEPT !.legal_document = _flush_buffer(fresh.legal_document, fresh.state)]
    /\ UNCHANGED <<parsing_rules, header_lines_to_skip, state, pos, nlines, end_seen,
                   articles_ascending, prose_run, previous_rules, stretch, chunker, validator, main, app_vars>>

Next == NextPage \/ SkipHeaderLine \/ ParseChunk \/ Finish

Spec == Init /\ [][Next]_vars

\* the lines that make up the articles of a section: numbered article markers, paragraph
\* markers and prose
ArticleLines(rules) ==
    {L \in Lines(rules) : \/ Match(rules.article_pattern, L)
                          \/ Match(rules.paragraph_pattern, L)
                          \/ L = <<"teks">>}

\* a page of an article with its paragraphs: a longer input over fewer kinds of lines
ParseArticleChunk == ParseLine(ArticleLines(parsing_rules), MaxArticleLines)

NextArticles == NextPage \/ ParseArticleChunk \/ Finish

\* parse on pages without header lines that hold article lines only
InitArticles ==
    /\ Init
    /\ header_lines_to_skip = 0

SpecArticles == InitArticles /\ [][NextArticles]_vars

\* the section parsed by the call that has ended
SectionOf(rules) == IF rules = body_parsing_rules THEN "body" ELSE "elucidation"

\* variant: the parser object keeps the ParseState and the output of its previous call
Mutant_ParseAgain_StateKept ==
    /\ pc = "done"
    /\ nlines >= 1 /\ nlines < MaxLines
    /\ parsing_rules' \in {body_parsing_rules, elucidation_parsing_rules}
    /\ previous_rules' = SectionOf(parsing_rules)
    /\ pc' = "pages"
    /\ pos' = 0
    /\ branch' = "call"
    /\ end_seen' = FALSE
    /\ articles_ascending' = TRUE
    /\ prose_run' = EmptyInput
    /\ header_chunk' = NoLine
    /\ fresh' = FreshCall
    /\ UNCHANGED <<header_lines_to_skip, state, legal_document, nlines, stretch, chunker, validator, main, app_vars>>

\* cli.py 73-74: once parse has returned it is called again on the same parser object,
\* which holds the logger and header_lines_to_skip only; the call builds its own
\* ParseState and output (the earlier call took at least one line, and lines are left
\* for this one)
ParseAgain ==
    /\ pc = "done"
    /\ nlines >= 1 /\ nlines < MaxLines
    /\ parsing_rules' \in {body_parsing_rules, elucidation_parsing_rules}
    /\ previous_rules' = SectionOf(parsing_rules)
    /\ state' = ParseState
    /\ legal_document' = <<>>
    /\ pc' = "pages"
    /\ pos' = 0
    /\ branch' = "call"
    /\ end_seen' = FALSE
    /\ articles_ascending' = TRUE
    /\ prose_run' = EmptyInput
    /\ header_chunk' = NoLine
    /\ fresh' = FreshCall
    /\ stretch' = 0
    /\ UNCHANGED <<header_lines_to_skip, nlines, chunker, validator, main, app_vars>>

NextReuse == NextPage \/ SkipHeaderLine \/ ParseChunk \/ Finish \/ ParseAgain

\* one parser object used for several parse calls
SpecReuse == Init /\ [][NextReuse]_vars

-----------------------------------------------------------------------------
(* chunker/main.py: tokenize and make_chunks.                                      *)
(* A text is a sequence of pieces: a maximal run of word characters, one           *)
(* punctuation character, or a blank.                                              *)

DEFAULT_MAX_CHUNK_TOKENS == 300
DEFAULT_OVERLAP_TOKENS == 30

Punctuation == {"."}
TextPieces == {"teks"} \cup Punctuation \cup {SP}

\* a run of word characters (\w+): a word or a number
IsWordPiece(piece) == piece \notin Punctuation /\ piece \notin Whitespace

\* maximal runs: two word pieces never stand side by side
WellFormed(t) == \A i \in 1 .. Len(t) - 1 : ~(IsWordPiece(t[i]) /\ IsWordPiece(t[i + 1]))

ShortTexts ==
    {t \in UNION {[1 .. n -> TextPieces] : n \in 0 .. MaxTextLen} : WellFormed(t)}

\* "1 2 3 ... 350": 350 tokens, all different
LongText == [i \in 1 .. 699 |-> IF i % 2 = 1 THEN ToString((i + 1) \div 2) ELSE SP]

\* re.findall(r"\b\w+\b|[^\w\s]", text): every word run and every punctuation
\* character is a token, blanks are none
tokenize(text) == SelectSeq(text, LAMBDA piece : piece \notin Whitespace)

Min(a, b) == IF a <= b THEN a ELSE b
Max(a, b) == IF a >= b THEN a ELSE b

\* variant: the window is one token wider
Mutant_WindowEnd_OneMore(start_idx, max_chunk_tokens, total_tokens) ==
    Min(start_idx + max_chunk_tokens + 1, total_tokens)

\* end_idx = min(start_idx + max_chunk_tokens, total_tokens)
WindowEnd(start_idx, max_chunk_tokens, total_tokens) ==
    Min(start_idx + max_chunk_tokens, total_tokens)

\* tokens[start_idx:end_idx]: a negative index counts from the end, and both indices
\* are clipped to the sequence
PySlice(seq, start_idx, end_idx) ==
    LET n == Len(seq)
        lo == IF start_idx < 0 THEN Max(start_idx + n, 0) ELSE Min(start_idx, n)
        hi == IF end_idx < 0 THEN Max(end_idx + n, 0) ELSE Min(end_idx, n)
    IN IF lo >= hi THEN <<>> ELSE SubSeq(seq, lo + 1, hi)

\* variant: the tokens are joined by two blanks
Mutant_Join_TwoBlanks(chunk_tokens) ==
    [i \in 1 .. 3 * Len(chunk_tokens) - 2 |-> IF i % 3 = 1 THEN chunk_tokens[(i + 2) \div 3] ELSE SP]

\* " ".join(chunk_tokens)
Join(chunk_tokens) ==
    [i \in 1 .. 2 * Len(chunk_tokens) - 1 |-> IF i % 2 = 1 THEN chunk_tokens[(i + 1) \div 2] ELSE SP]

\* variant: the next window keeps one token more of the previous one
Mutant_NextStart_LongOverlap(end_idx, overlap_tokens) ==
    end_idx - overlap_tokens - 1

\* variant: the next window keeps one token less of the previous one
Mutant_NextStart_ShortOverlap(end_idx, overlap_tokens) ==
    end_idx - overlap_tokens + 1

\* start_idx = end_idx - overlap_tokens
NextStart(end_idx, overlap_tokens) ==
    end_idx - overlap_tokens

\* the loop is cut off after this many chunks when the window start does not advance
MaxChunks == MaxTextLen + 1

\* the arguments of a call: a short text with small budgets or the defaults, or the
\* long text with the defaults
Calls ==
    {[text |-> t, max_chunk_tokens |-> m, overlap_tokens |-> o] :
        t \in ShortTexts, m \in 1 .. MaxChunkTokens, o \in 0 .. MaxOverlap}
      \cup {[text |-> t, max_chunk_tokens |-> DEFAULT_MAX_CHUNK_TOKENS, overlap_tokens |-> DEFAULT_OVERLAP_TOKENS] :
              t \in ShortTexts \cup {LongText}}

\* no parse call is running
ParserIdle ==
    /\ parsing_rules = body_parsing_rules
    /\ header_lines_to_skip = 0
    /\ state = ParseState
    /\ legal_document = <<>>
    /\ pc = "idle"
    /\ pos = 0
    /\ nlines = 0
    /\ branch = "none"
    /\ end_seen = FALSE
    /\ articles_ascending = TRUE
    /\ prose_run = EmptyInput
    /\ header_chunk = NoLine
    /\ fresh = FreshCall
    /\ previous_rules = "none"
    /\ stretch = 0

InitChunker ==
    /\ ParserIdle
    /\ validator = IdleValidation
    /\ main = IdleMain
    /\ AppIdle
    /\ chunker \in
          {[ pc |-> "call", text |-> c.text, max_chunk_tokens |-> c.max_chunk_tokens,
             overlap_tokens |-> c.overlap_tokens, tokens |-> <<>>, total_tokens |-> 0,
             start_idx |-> 0, chunks |-> <<>> ] : c \in Calls}

\* variant: a text within the budget is returned as its tokens joined by single spaces
Mutant_MakeChunksEntry_Rejoined ==
    /\ chunker.pc = "call"
    /\ LET tokens == tokenize(chunker.text)
           total_tokens == Len(tokens)
       IN chunker' =
             IF total_tokens <= chunker.max_chunk_tokens
             THEN [chunker EXCEPT !.tokens = tokens, !.total_tokens = total_tokens,
                                  !.chunks = <<Join(tokens)>>, !.pc = "done"]
             ELSE [chunker EXCEPT !.tokens = tokens, !.total_tokens = total_tokens,
                                  !.chunks = <<>>, !.start_idx = 0, !.pc = "while"]
    /\ UNCHANGED <<parser_vars, validator, main, app_vars>>

\* chunker/main.py 75-84: tokenize; a text within the budget is returned as it is
MakeChunksEntry ==
    /\ chunker.pc = "call"
    /\ LET tokens == tokenize(chunker.text)
           total_tokens == Len(tokens)
       IN chunker' =
             IF total_tokens <= chunker.max_chunk_tokens
             THEN [chunker EXCEPT !.tokens = tokens, !.total_tokens = total_tokens,
                                  !.chunks = <<chunker.text>>, !.pc = "done"]
             ELSE [chunker EXCEPT !.tokens = tokens, !.total_tokens = total_tokens,
                                  !.chunks = <<>>, !.start_idx = 0, !.pc = "while"]
    /\ UNCHANGED <<parser_vars, validator, main, app_vars>>

\* variant: the loop is left one token before the end of the text
Mutant_MakeChunksWindow_EarlyBreak ==
    /\ chunker.pc = "while"
    /\ Len(chunker.chunks) < MaxChunks
    /\ chunker' =
          IF chunker.start_idx < chunker.total_tokens
          THEN LET end_idx == WindowEnd(chunker.start_idx, chunker.max_chunk_tokens, chunker.total_tokens)
                   chunk_tokens == PySlice(chunker.tokens, chunker.start_idx, end_idx)
                   chunks == Append(chunker.chunks, Join(chunk_tokens))
               IN IF end_idx >= chunker.total_tokens - 1
                  THEN [chunker EXCEPT !.chunks = chunks, !.pc = "done"]
                  ELSE [chunker EXCEPT !.chunks = chunks,
                                       !.start_idx = NextStart(end_idx, chunker.overlap_tokens)]
          ELSE [chunker EXCEPT !.pc = "done"]
    /\ UNCHANGED <<parser_vars, validator, main, app_vars>>

\* chunker/main.py 86-99: one pass through the while loop
MakeChunksWindow ==
    /\ chunker.pc = "while"
    /\ Len(chunker.chunks) < MaxChunks
    /\ chunker' =
          IF chunker.start_idx < chunker.total_tokens
          THEN LET end_idx == WindowEnd(chunker.start_idx, chunker.max_chunk_tokens, chunker.total_tokens)
                   chunk_tokens == PySlice(chunker.tokens, chunker.start_idx, end_idx)
                   chunks == Append(chunker.chunks, Join(chunk_tokens))
               IN IF end_idx >= chunker.total_tokens
                  THEN [chunker EXCEPT !.chunks = chunks, !.pc = "done"]
                  ELSE [chunker EXCEPT !.chunks = chunks,
                                       !.start_idx = NextStart(end_idx, chunker.overlap_tokens)]
          ELSE [chunker EXCEPT !.pc = "done"]
    /\ UNCHANGED <<parser_vars, validator, main, app_vars>>

NextChunker == MakeChunksEntry \/ MakeChunksWindow

SpecChunker == InitChunker /\ [][NextChunker]_vars

\* make_chunks is straight-line code in one thread: a statement that can run does run
SpecChunkerFair == SpecChunker /\ WF_vars(NextChunker)

-----------------------------------------------------------------------------
(* parser/validation.py and ParsingValidationReport.is_valid (models.py).          *)
(* A list is a sequence; a dict is the sequence of its (key, value) pairs in        *)
(* insertion order; an outcome is the value returned or the exception raised.       *)

\* a LegalDocumentItem is an object without __bool__ or __len__: `if item` is true
ItemTruthy(item) == TRUE

\* LegalDocumentItem(None, None, None), the empty item of the test suite
EmptyItem == LegalDocumentItem(None, None, <<>>)

\* the items a section may hold: the empty item, and an article with or without a
\* paragraph number
Items ==
    {EmptyItem} \cup
    {LegalDocumentItem(a, p, <<"teks">>) : a \in 1 .. MaxNumber, p \in {None} \cup 1 .. MaxNumber}

\* (article_number, paragraph_number) pairs as an item sequence
ItemsOf(pairs) == [i \in 1 .. Len(pairs) |-> LegalDocumentItem(pairs[i][1], pairs[i][2], <<"teks">>)]

\* the item sequences of tests/ingestions/test_validation.py and of the design, each
\* with an expected total (the first also with an expected total below its last article)
ExampleCalls ==
    { [legal_document |-> ItemsOf(<< <<1, None>>, <<2, 1>>, <<2, 2>>, <<4, None>>, <<6, 1>> >>),
       expected_total_articles |-> 6],
      [legal_document |-> ItemsOf(<< <<1, None>>, <<2, 1>>, <<2, 2>>, <<4, None>>, <<6, 1>> >>),
       expected_total_articles |-> 5],
      [legal_document |-> ItemsOf(<< <<1, None>>, <<2, 1>>, <<2, 2>>, <<3, 1>>, <<3, 5>>, <<4, 5>>, <<5, 1>> >>),
       expected_total_articles |-> 5],
      [legal_document |-> ItemsOf(<< <<1, None>>, <<1, None>>, <<2, 1>>, <<2, 2>>, <<3, 1>>, <<3, 1>>, <<3, 2>>,
                                     <<3, 3>>, <<3, 3>>, <<4, 1>>, <<4, 2>>, <<4, 3>> >>),
       expected_total_articles |-> 4],
      [legal_document |-> <<EmptyItem>> \o ItemsOf(<< <<1, None>>, <<2, 1>>, <<2, 2>>, <<3, 1>>, <<3, 1>> >>)
                             \o <<EmptyItem>>,
       expected_total_articles |-> 3] }

ValidationCalls ==
    {[legal_document |-> d, expected_total_articles |-> e] :
        d \in UNION {[1 .. n -> Items] : n \in 0 .. MaxItems}, e \in 0 .. MaxNumber}
      \cup ExampleCalls

Returned(v) == [raised |-> "none", value |-> v]
Raised(e) == [raised |-> e, value |-> <<>>]

\* sorted(s) for a set of integers
RECURSIVE sorted(_)
sorted(S) ==
    IF S = {} THEN <<>>
    ELSE LET least == CHOOSE x \in S : \A y \in S : x <= y
         IN <<least>> \o sorted(S \ {least})

\* tuples compare by their first component, then by their second
TupleLess(k, l) == k[1] < l[1] \/ (k[1] = l[1] /\ k[2] < l[2])

\* sorted(s) for a set of tuples with distinct (first, second) components
RECURSIVE sorted_tuples(_)
sorted_tuples(S) ==
    IF S = {} THEN <<>>
    ELSE LET least == CHOOSE k \in S : \A l \in S : k = l \/ TupleLess(k, l)
         IN <<least>> \o sorted_tuples(S \ {least})

\* sorted(d.items()) for a dict: the keys are distinct, so the pairs are ordered by key
RECURSIVE sorted_items(_)
sorted_items(S) ==
    IF S = {} THEN <<>>
    ELSE LET least == CHOOSE k \in S : \A l \in S : k[1] <= l[1]
         IN <<least>> \o sorted_items(S \ {least})

\* ordering None against an int raises TypeError: sorting tuples raises when one of
\* two or more tuples starts with None
SortRaises(S) == Cardinality(S) >= 2 /\ \E k \in S : k[1] = None

\* validation.py 22-23
check_total_articles(doc) ==
    LET unique_articles ==
            {doc[i].article_number :
                i \in {j \in 1 .. Len(doc) : ItemTruthy(doc[j])}}
    IN Cardinality(unique_articles)

\* variant: the range runs up to the largest article number observed
Mutant_check_missing_articles_UpToObserved(doc, expected_total_articles) ==
    LET actual == {doc[i].article_number : i \in 1 .. Len(doc)}
        last == CHOOSE x \in actual \cup {expected_total_articles} :
                    \A y \in actual \cup {expected_total_articles} : y <= x
    IN sorted((1 .. last) \ actual)

\* validation.py 43-46
check_missing_articles(doc, expected_total_articles) ==
    LET actual ==
            {doc[i].article_number :
                i \in {j \in 1 .. Len(doc) : ItemTruthy(doc[j])}}
        expected == 1 .. expected_total_articles
        missing == expected \ actual
    IN sorted(missing)

SetMax(S) == CHOOSE x \in S : \A y \in S : y <= x

\* variant: an article without a gap is reported with an empty list
Mutant_check_missing_paragraphs_GaplessReported(doc) ==
    LET with_paragraph == {i \in 1 .. Len(doc) : Truthy(doc[i].paragraph_number)}
        articles == {doc[i].article_number : i \in with_paragraph}
        paragraph_numbers(a) ==
            {doc[i].paragraph_number : i \in {j \in with_paragraph : doc[j].article_number = a}}
        missing(a) == sorted((1 .. SetMax(paragraph_numbers(a))) \ paragraph_numbers(a))
    IN IF articles = {} THEN Raised("ValueError")
       ELSE Returned(sorted_items({<<a, missing(a)>> : a \in articles}))

\* variant: without any paragraph number the result is the empty map
Mutant_check_missing_paragraphs_EmptyMap(doc) ==
    LET with_paragraph == {i \in 1 .. Len(doc) : Truthy(doc[i].paragraph_number)}
        articles == {doc[i].article_number : i \in with_paragraph}
        paragraph_numbers(a) ==
            {doc[i].paragraph_number : i \in {j \in with_paragraph : doc[j].article_number = a}}
        missing(a) == sorted((1 .. SetMax(paragraph_numbers(a))) \ paragraph_numbers(a))
    IN Returned(sorted_items({<<a, missing(a)>> : a \in {b \in articles : missing(b) # <<>>}}))

\* validation.py 65-86
check_missing_paragraphs(doc) ==
    LET with_paragraph ==
            {i \in 1 .. Len(doc) :
                ItemTruthy(doc[i]) /\ Truthy(doc[i].paragraph_number)}
        articles == {doc[i].article_number : i \in with_paragraph}
        paragraph_numbers(a) ==
            {doc[i].paragraph_number : i \in {j \in with_paragraph : doc[j].article_number = a}}
        missing(a) == sorted((1 .. SetMax(paragraph_numbers(a))) \ paragraph_numbers(a))
        article_to_missing == {<<a, missing(a)>> : a \in {b \in articles : missing(b) # <<>>}}
    IN IF articles = {} THEN Raised("ValueError")
       ELSE IF SortRaises(article_to_missing) THEN Raised("TypeError")
       ELSE Returned(sorted_items(article_to_missing))

\* validation.py 104-111
check_duplicate_article_paragraphs(doc) ==
    LET items == {i \in 1 .. Len(doc) : ItemTruthy(doc[i])}
        key(i) == <<doc[i].article_number,
                    IF doc[i].paragraph_number = None THEN 0 ELSE doc[i].paragraph_number>>
        counts(k) == Cardinality({i \in items : key(i) = k})
        duplicates == {k \in {key(i) : i \in items} : counts(k) > 1}
    IN IF SortRaises(duplicates) THEN Raised("TypeError")
       ELSE Returned(sorted_tuples(duplicates))

\* models.py 32-36: the report holds duplicate_article_paragraphs as List[Tuple[int, int]],
\* and its construction rejects a key whose article number is None
ParsingValidationReport(total_articles, missing_articles, missing_paragraphs, duplicate_article_paragraphs) ==
    IF \E i \in 1 .. Len(duplicate_article_paragraphs) : duplicate_article_paragraphs[i][1] = None
    THEN [NoReport EXCEPT !.raised = "ValidationError"]
    ELSE [ raised |-> "none", total_articles |-> total_articles, missing_articles |-> missing_articles,
           missing_paragraphs |-> missing_paragraphs,
           duplicate_article_paragraphs |-> duplicate_article_paragraphs ]

\* validation.py 136-152: the four checks in order, then the report; an exception of a
\* check leaves the function at once
validate_result(doc, expected_total_articles) ==
    LET total_articles == check_total_articles(doc)
        missing_articles == check_missing_articles(doc, expected_total_articles)
        missing_paragraphs == check_missing_paragraphs(doc)
        duplicate_article_paragraphs == check_duplicate_article_paragraphs(doc)
    IN IF missing_paragraphs.raised # "none" THEN [NoReport EXCEPT !.raised = missing_paragraphs.raised]
       ELSE IF duplicate_article_paragraphs.raised # "none"
       THEN [NoReport EXCEPT !.raised = duplicate_article_paragraphs.raised]
       ELSE ParsingValidationReport(total_articles, missing_articles, missing_paragraphs.value,
                                    duplicate_article_paragraphs.value)

\* variant: duplicates do not make a report invalid
Mutant_is_valid_DuplicatesIgnored(report, expected_total_articles) ==
    /\ report.total_articles = expected_total_articles
    /\ report.missing_articles = <<>>
    /\ report.missing_paragraphs = <<>>

\* models.py 51-56
is_valid(report, expected_total_articles) ==
    /\ report.total_articles = expected_total_articles
    /\ report.missing_articles = <<>>
    /\ report.missing_paragraphs = <<>>
    /\ report.duplicate_article_paragraphs = <<>>

\* neither make_chunks nor parse is running
OthersIdle == ParserIdle /\ chunker = IdleFrame /\ main = IdleMain

InitValidator ==
    /\ OthersIdle
    /\ AppIdle
    /\ validator \in
          {[IdleValidation EXCEPT !.pc = "check_total_articles", !.legal_document = c.legal_document,
                                  !.expected_total_articles = c.expected_total_articles] :
              c \in ValidationCalls}

\* check_total_articles(legal_document)
CheckTotalArticles ==
    /\ validator.pc = "check_total_articles"
    /\ validator' = [validator EXCEPT !.total_articles = check_total_articles(validator.legal_document),
                                      !.pc = "check_missing_articles"]
    /\ UNCHANGED <<parser_vars, chunker, main, app_vars>>

\* check_missing_articles(legal_document, expected_total_articles)
CheckMissingArticles ==
    /\ validator.pc = "check_missing_articles"
    /\ validator' =
          [validator EXCEPT !.missing_articles =
                                check_missing_articles(validator.legal_document, validator.expected_total_articles),
                            !.pc = "check_missing_paragraphs"]
    /\ UNCHANGED <<parser_vars, chunker, main, app_vars>>

\* check_missing_paragraphs(legal_document)
CheckMissingParagraphs ==
    /\ validator.pc = "check_missing_paragraphs"
    /\ validator' = [validator EXCEPT !.missing_paragraphs = check_missing_paragraphs(validator.legal_document),
                                      !.pc = "check_duplicate_article_paragraphs"]
    /\ UNCHANGED <<parser_vars, chunker, main, app_vars>>

\* check_duplicate_article_paragraphs(legal_document)
CheckDuplicateArticleParagraphs ==
    /\ validator.pc = "check_duplicate_article_paragraphs"
    /\ validator' =
          [validator EXCEPT !.duplicate_article_paragraphs =
                                check_duplicate_article_paragraphs(validator.legal_document),
                            !.pc = "validate_result"]
    /\ UNCHANGED <<parser_vars, chunker, main, app_vars>>

\* validate_result(legal_document, legal_text_type, expected_total_articles)
ValidateResult ==
    /\ validator.pc = "validate_result"
    /\ LET report == validate_result(validator.legal_document, validator.expected_total_articles)
       IN validator' = [validator EXCEPT !.report = report,
                                         !.pc = IF report.raised = "none" THEN "is_valid" ELSE "error"]
    /\ UNCHANGED <<parser_vars, chunker, main, app_vars>>

\* report.is_valid(expected_total_articles), for the expected total of the call or another
IsValid ==
    /\ validator.pc = "is_valid"
    /\ \E expected_total_articles \in 0 .. MaxNumber :
          validator' = [validator EXCEPT !.valid = is_valid(validator.report, expected_total_articles),
                                        !.is_valid_expected = expected_total_articles,
                                        !.pc = "done"]
    /\ UNCHANGED <<parser_vars, chunker, main, app_vars>>

NextValidator ==
    \/ CheckTotalArticles \/ CheckMissingArticles \/ CheckMissingParagraphs
    \/ CheckDuplicateArticleParagraphs \/ ValidateResult \/ IsValid

SpecValidator == InitValidator /\ [][NextValidator]_vars

-----------------------------------------------------------------------------
(* The two pipelines: parser/main.py (parse, validate, write the items) and        *)
(* chunker/main.py (chunk the items of both files, validate, write the chunks).    *)

\* make_chunks as a function of its arguments: the windows from start_idx on
RECURSIVE windows(_, _, _, _)
windows(tokens, start_idx, max_chunk_tokens, overlap_tokens) ==
    IF start_idx < Len(tokens)
    THEN LET end_idx == WindowEnd(start_idx, max_chunk_tokens, Len(tokens))
             chunk_text == Join(PySlice(tokens, start_idx, end_idx))
         IN IF end_idx >= Len(tokens) THEN <<chunk_text>>
            ELSE <<chunk_text>> \o windows(tokens, NextStart(end_idx, overlap_tokens), max_chunk_tokens, overlap_tokens)
    ELSE <<>>

\* chunker/main.py 75-99
make_chunks(text, max_chunk_tokens, overlap_tokens) ==
    IF Len(tokenize(text)) <= max_chunk_tokens THEN <<text>>
    ELSE windows(tokenize(text), 0, max_chunk_tokens, overlap_tokens)

LEGAL_TEXT_SOURCE == "UU_22_2009_LLAJ"

\* chunker/main.py 141-166: the chunks of one item, numbered from 0 (the embedding comes
\* from the embedding service and is left out)
process_item(legal_document_item, chunk_type) ==
    LET text_chunks == make_chunks(legal_document_item.text, DEFAULT_MAX_CHUNK_TOKENS, DEFAULT_OVERLAP_TOKENS)
    IN [i \in 1 .. Len(text_chunks) |->
          [ source |-> LEGAL_TEXT_SOURCE,
            article_number |-> legal_document_item.article_number,
            paragraph_number |-> legal_document_item.paragraph_number,
            chunk_index |-> i - 1,
            chunk_type |-> chunk_type,
            text |-> text_chunks[i],
            token_count |-> Len(tokenize(text_chunks[i])) ]]

\* the items parse may return: an article with or without a first paragraph
ParsedItems ==
    {LegalDocumentItem(a, p, <<"teks">>) : a \in 1 .. MaxNumber, p \in {None, 1}}

\* the item sequences parse may return
ParsedDocuments == UNION {[1 .. n -> ParsedItems] : n \in 0 .. MaxItems - 1}

\* the items a line of an input file of the chunker may hold: a short text or the long one
FileItems ==
    {LegalDocumentItem(a, p, t) : a \in 1 .. MaxNumber, p \in {None, 1}, t \in {<<"teks">>, LongText}}

\* a line that is not the JSON of an item
InvalidLine == LegalDocumentItem(None, None, <<"{">>)

InitMain ==
    /\ ParserIdle
    /\ chunker = IdleFrame
    /\ validator = IdleValidation
    /\ AppIdle
    /\ \/ \E e \in 1 .. MaxNumber :
             main = [IdleMain EXCEPT !.kind = "parser", !.pc = "parse", !.expected_total_articles = e]
       \/ main = [IdleMain EXCEPT !.kind = "chunker", !.pc = "process_file", !.chunk_type = "body"]

\* the run ends with this exit status
Exit(frame, status) == [frame EXCEPT !.pc = "exit", !.exit_status = status]

\* parser/main.py 126-128: both sections are parsed
MainParse ==
    /\ main.kind = "parser" /\ main.pc = "parse"
    /\ \E body \in ParsedDocuments, elucidation \in ParsedDocuments :
          main' = [main EXCEPT !.body = body, !.elucidation = elucidation, !.pc = "validate_body"]
    /\ UNCHANGED <<parser_vars, chunker, validator, app_vars>>

\* parser/main.py 130-134: an exception of validate_result ends the run
MainValidateBody ==
    /\ main.kind = "parser" /\ main.pc = "validate_body"
    /\ LET body_report == validate_result(main.body, main.expected_total_articles)
       IN main' = IF body_report.raised # "none"
                  THEN Exit([main EXCEPT !.body_report = body_report], 1)
                  ELSE [main EXCEPT !.body_report = body_report, !.pc = "validate_elucidation"]
    /\ UNCHANGED <<parser_vars, chunker, validator, app_vars>>

\* parser/main.py 135-139
MainValidateElucidation ==
    /\ main.kind = "parser" /\ main.pc = "validate_elucidation"
    /\ LET elucidation_report == validate_result(main.elucidation, main.expected_total_articles)
       IN main' = IF elucidation_report.raised # "none"
                  THEN Exit([main EXCEPT !.elucidation_report = elucidation_report], 1)
                  ELSE [main EXCEPT !.elucidation_report = elucidation_report, !.pc = "check_body"]
    /\ UNCHANGED <<parser_vars, chunker, validator, app_vars>>

\* parser/main.py 141-143
MainCheckBody ==
    /\ main.kind = "parser" /\ main.pc = "check_body"
    /\ main' = IF ~is_valid(main.body_report, main.expected_total_articles)
               THEN Exit(main, 1)
               ELSE [main EXCEPT !.pc = "check_elucidation"]
    /\ UNCHANGED <<parser_vars, chunker, validator, app_vars>>

\* variant: the report of the elucidation is not looked at
Mutant_MainCheckElucidation_Skipped ==
    /\ main.kind = "parser" /\ main.pc = "check_elucidation"
    /\ main' = [main EXCEPT !.pc = "write_body"]
    /\ UNCHANGED <<parser_vars, chunker, validator, app_vars>>

\* parser/main.py 144-146
MainCheckElucidation ==
    /\ main.kind = "parser" /\ main.pc = "check_elucidation"
    /\ main' = IF ~is_valid(main.elucidation_report, main.expected_total_articles)
               THEN Exit(main, 1)
               ELSE [main EXCEPT !.pc = "write_body"]
    /\ UNCHANGED <<parser_vars, chunker, validator, app_vars>>

\* parser/main.py 148-150
MainWriteBody ==
    /\ main.kind = "parser" /\ main.pc = "write_body"
    /\ main' = [main EXCEPT !.written = Append(main.written, "body.jsonl"), !.pc = "write_elucidation"]
    /\ UNCHANGED <<parser_vars, chunker, validator, app_vars>>

\* parser/main.py 151-153
MainWriteElucidation ==
    /\ main.kind = "parser" /\ main.pc = "write_elucidation"
    /\ main' = Exit([main EXCEPT !.written = Append(main.written, "elucidation.jsonl")], 0)
    /\ UNCHANGED <<parser_vars, chunker, validator, app_vars>>

\* chunker/main.py 192-207: one line of the file being processed; a line that is not an
\* item ends the run
ProcessLine ==
    /\ main.kind = "chunker" /\ main.pc = "process_file"
    /\ main.nlines < MaxItems - 1
    /\ \E legal_document_item \in FileItems \cup {InvalidLine} :
          main' = IF legal_document_item = InvalidLine
                  THEN Exit(main, 1)
                  ELSE [main EXCEPT !.all_chunks = main.all_chunks \o process_item(legal_document_item, main.chunk_type),
                                    !.nlines = main.nlines + 1]
    /\ UNCHANGED <<parser_vars, chunker, validator, app_vars>>

\* chunker/main.py 244-247: the body file is followed by the elucidation file
EndOfFile ==
    /\ main.kind = "chunker" /\ main.pc = "process_file"
    /\ main' = IF main.chunk_type = "body"
               THEN [main EXCEPT !.chunk_type = "elucidation"]
               ELSE [main EXCEPT !.pc = "run_all_validations"]
    /\ UNCHANGED <<parser_vars, chunker, validator, app_vars>>

\* chunker/main.py 251-255: the validations look at the embeddings, which the model does
\* not hold: they pass, fail or raise; after a failure main returns None
RunAllValidations ==
    /\ main.kind = "chunker" /\ main.pc = "run_all_validations"
    /\ \E outcome \in {"passed", "failed", "raised"} :
          main' = IF outcome = "raised" THEN Exit(main, 1)
                  ELSE IF outcome = "failed" THEN Exit([main EXCEPT !.validation_passed = FALSE], 0)
                  ELSE [main EXCEPT !.validation_passed = TRUE, !.pc = "write_chunks"]
    /\ UNCHANGED <<parser_vars, chunker, validator, app_vars>>

\* chunker/main.py 258-271
WriteChunks ==
    /\ main.kind = "chunker" /\ main.pc = "write_chunks"
    /\ main' = Exit([main EXCEPT !.written = Append(main.written, "chunks_with_embeddings.jsonl")], 0)
    /\ UNCHANGED <<parser_vars, chunker, validator, app_vars>>

NextMain ==
    \/ MainParse \/ MainValidateBody \/ MainValidateElucidation \/ MainCheckBody \/ MainCheckElucidation
    \/ MainWriteBody \/ MainWriteElucidation
    \/ ProcessLine \/ EndOfFile \/ RunAllValidations \/ WriteChunks

SpecMain == InitMain /\ [][NextMain]_vars

-----------------------------------------------------------------------------
(* app/core/gemini_client.py: the three operations of GeminiClient, each wrapped   *)
(* by tenacity's retry decorator. An attempt awaits the API call; the decorator    *)
(* looks at what the attempt raised and decides: hand the exception to the caller, *)
(* give up with RetryError, or sleep and attempt again.                            *)

Operations == {"generate_text", "generate_embedding", "generate_embeddings_batch"}

\* what the API call of an attempt may raise: the exception's class, and whether its
\* text holds "429", "RESOURCE_EXHAUSTED" or "quota" (the answer to a request over the
\* quota or the rate limit is a ClientError with that text)
ApiErrors ==
    { [class |-> "ConnectionError", quota_text |-> FALSE],
      [class |-> "TimeoutError", quota_text |-> FALSE],
      [class |-> "ClientError", quota_text |-> TRUE],
      [class |-> "ClientError", quota_text |-> FALSE],
      [class |-> "ServerError", quota_text |-> FALSE] }

\* the except clause of the operation: generate_text turns an exception with the quota
\* text into APIQuotaExceededError; the embedding operations log and re-raise
Reraised(operation, e) ==
    IF operation = "generate_text" /\ e.quota_text
    THEN [class |-> "APIQuotaExceededError", quota_text |-> TRUE]
    ELSE e

\* the retry argument of the decorator: generate_text names two exception classes, the
\* embedding operations name none and take tenacity's default, any Exception
retry(operation, exception) ==
    IF operation = "generate_text"
    THEN exception.class \in {"ConnectionError", "TimeoutError"}
    ELSE TRUE

STOP_AFTER_ATTEMPT == 3

\* stop_after_attempt(3)
stop(attempt_number) == attempt_number >= STOP_AFTER_ATTEMPT

InitGemini ==
    /\ ParserIdle
    /\ chunker = IdleFrame
    /\ validator = IdleValidation
    /\ main = IdleMain
    /\ store = IdleStore
    /\ chat = IdleChat
    /\ \E operation \in Operations :
          gemini = [IdleGemini EXCEPT !.pc = "attempt", !.operation = operation, !.attempt_number = 1]

\* one attempt: the body of the operation runs; the decorator returns its value, hands
\* its exception on when the retry condition does not hold, raises RetryError when the
\* stop condition holds, and goes to sleep otherwise
Attempt ==
    /\ gemini.pc = "attempt"
    /\ \/ gemini' = [gemini EXCEPT !.pc = "returned", !.outcome = "value"]
       \/ \E e \in ApiErrors :
             LET exception == Reraised(gemini.operation, e)
                 raised == Append(gemini.raised, [api |-> e, exception |-> exception])
             IN gemini' =
                   IF ~retry(gemini.operation, exception)
                   THEN [gemini EXCEPT !.raised = raised, !.pc = "raised", !.outcome = exception.class]
                   ELSE IF stop(gemini.attempt_number)
                   THEN [gemini EXCEPT !.raised = raised, !.pc = "raised", !.outcome = "RetryError"]
                   ELSE [gemini EXCEPT !.raised = raised, !.pc = "sleep"]
    /\ UNCHANGED <<parser_vars, chunker, validator, main, store, chat>>

\* wait_exponential has passed: the next attempt begins
Sleep ==
    /\ gemini.pc = "sleep"
    /\ gemini' = [gemini EXCEPT !.pc = "attempt", !.attempt_number = gemini.attempt_number + 1]
    /\ UNCHANGED <<parser_vars, chunker, validator, main, store, chat>>

NextGemini == Attempt \/ Sleep

SpecGemini == InitGemini /\ [][NextGemini]_vars

-----------------------------------------------------------------------------
(* app/core/session_store.py and app/services/chat.py: the session store and the    *)
(* chat calls. The k-th ChatSession object created has the k-th uuid4 as its id,     *)
(* written ToString(k); an object lives on while a chat call holds it, also after    *)
(* the store has dropped it. Times are in hours. The endpoints are coroutines of     *)
(* one event loop: the code between two awaits runs as one step. A call in flight    *)
(* has a frame in `chat`; the frame is gone when the call has returned or raised.    *)

MaxCalls == 2
MaxDays == 2

\* config.py 31: session_ttl_hours
SESSION_TTL_HOURS == 24

\* str(uuid4()) of the k-th call
Uuid(k) == ToString(k)

\* the object whose id is session_id
Object(s, session_id) == s.objects[CHOOSE k \in 1 .. Len(s.objects) : s.objects[k].id = session_id]

\* session_id in self._sessions
Known(s, session_id) == \E i \in 1 .. Len(s.sessions) : s.sessions[i] = session_id

\* the session ids a client may put in a path: an id no session has, and the ids
\* handed out so far
PathIds(s) == {"unknown"} \cup {s.objects[k].id : k \in 1 .. Len(s.objects)}

\* the session ids a chat request may carry: none, the empty string, or one of those
ClientIds(s) == {NoSession, ""} \cup PathIds(s)

\* the call and what it returned, for the properties
Called(s, op, session_id, result) ==
    [ op |-> op, session_id |-> session_id,
      known |-> Known(s, session_id),
      age |-> IF Known(s, session_id) THEN s.now - Object(s, session_id).updated_at ELSE 0,
      objects |-> Len(s.objects),
      result |-> result ]

\* session_store.py 39-43: ChatSession()
ChatSession(s) ==
    [id |-> Uuid(Len(s.objects) + 1), messages |-> <<>>, updated_at |-> s.now]

\* session_store.py 45-64: session.add_message(role, ...)
add_message(s, session_id, role) ==
    [s EXCEPT !.objects =
        [k \in 1 .. Len(s.objects) |->
            IF s.objects[k].id = session_id
            THEN [s.objects[k] EXCEPT !.messages = Append(@, role), !.updated_at = s.now]
            ELSE s.objects[k]]]

\* session_store.py 96-105
create_session(s) ==
    LET session == ChatSession(s)
    IN [ store |-> [s EXCEPT !.objects = Append(@, session), !.sessions = Append(@, session.id)],
         result |-> session.id ]

\* session_store.py 143-156
delete_session(s, session_id) ==
    IF Known(s, session_id)
    THEN [ store |-> [s EXCEPT !.sessions = SelectSeq(@, LAMBDA id : id # session_id)], result |-> TRUE ]
    ELSE [ store |-> s, result |-> FALSE ]

\* now > session.updated_at + timedelta(hours=self._ttl_hours)
Expired(s, session) == s.now > session.updated_at + s.ttl_hours

\* variant: an expired session is not returned but stays in the store
Mutant_get_session_ExpiredKept(s, session_id) ==
    IF Known(s, session_id) /\ Expired(s, Object(s, session_id))
    THEN [ store |-> [s EXCEPT !.expired = @ \cup {session_id}], result |-> NoSession ]
    ELSE [ store |-> s, result |-> IF Known(s, session_id) THEN session_id ELSE NoSession ]

\* session_store.py 107-125: a ChatSession is an object without __bool__ or __len__, so
\* `if session` holds whenever the id is in the dict
get_session(s, session_id) ==
    IF Known(s, session_id) /\ Expired(s, Object(s, session_id))
    THEN [ store |-> [delete_session(s, session_id).store EXCEPT !.expired = @ \cup {session_id}],
           result |-> NoSession ]
    ELSE [ store |-> s, result |-> IF Known(s, session_id) THEN session_id ELSE NoSession ]

\* session_store.py 127-141: `if session_id` is false for None and for the empty string
get_or_create_session(s, session_id) ==
    IF session_id \notin {NoSession, ""}
    THEN LET got == get_session(s, session_id)
         IN IF got.result # NoSession THEN got ELSE create_session(got.store)
    ELSE create_session(s)

\* tuple without its c-th element
Without(frames, c) == [i \in 1 .. Len(frames) - 1 |-> IF i < c THEN frames[i] ELSE frames[i + 1]]

\* the chat calls made so far: each has added one user message
CallsBegun(s) ==
    Cardinality(UNION {{<<k, i>> : i \in {j \in 1 .. Len(s.objects[k].messages) : s.objects[k].messages[j] = "user"}} :
                          k \in 1 .. Len(s.objects)})

\* the application has started: main.py 30 builds the store
InitChat ==
    /\ ParserIdle
    /\ chunker = IdleFrame
    /\ validator = IdleValidation
    /\ main = IdleMain
    /\ gemini = IdleGemini
    /\ chat = <<>>
    /\ store = [IdleStore EXCEPT !.pc = "running", !.ttl_hours = SESSION_TTL_HOURS]

\* datetime.now() has moved on by a day
Tick ==
    /\ store.now < MaxDays * 24
    /\ store' = [store EXCEPT !.now = @ + 24]
    /\ UNCHANGED <<parser_vars, chunker, validator, main, gemini, chat>>

\* chat.py 87-99 (GET /chat/{session_id}/history): self.session_store.get_session
GetSessionHistory ==
    /\ \E session_id \in PathIds(store) :
          LET r == get_session(store, session_id)
          IN store' = [r.store EXCEPT !.last = Called(store, "get_session", session_id, r.result)]
    /\ UNCHANGED <<parser_vars, chunker, validator, main, gemini, chat>>

\* chat.py 101-110 (DELETE /chat/{session_id})
DeleteSession ==
    /\ \E session_id \in PathIds(store) :
          LET r == delete_session(store, session_id)
          IN store' = [r.store EXCEPT !.last = Called(store, "delete_session", session_id, r.result)]
    /\ UNCHANGED <<parser_vars, chunker, validator, main, gemini, chat>>

\* chat.py 45-59: the session is fetched or created, the user message is added, and
\* the call waits for the retrieval
ChatBegin ==
    /\ CallsBegun(store) < MaxCalls
    /\ \E session_id \in ClientIds(store) :
          LET r == get_or_create_session(store, session_id)
          IN /\ store' = [add_message(r.store, r.result, "user") EXCEPT
                              !.last = Called(store, "get_or_create_session", session_id, r.result)]
             /\ chat' = Append(chat, [pc |-> "retrieve", session |-> r.result])
    /\ UNCHANGED <<parser_vars, chunker, validator, main, gemini>>

\* chat.py 59-71, llm.py 97-98 and 122-127: the retrieval has returned; without chunks
\* generate_response returns the fixed answer at once and the assistant message is
\* added, with chunks the call waits for generate_text
ChatRetrieved ==
    /\ \E c \in 1 .. Len(chat) :
          /\ chat[c].pc = "retrieve"
          /\ \E retrieved_chunks \in {"none", "some"} :
                IF retrieved_chunks = "none"
                THEN /\ store' = add_message(store, chat[c].session, "assistant")
                     /\ chat' = Without(chat, c)
                ELSE /\ store' = store
                     /\ chat' = [chat EXCEPT ![c].pc = "generate"]
    /\ UNCHANGED <<parser_vars, chunker, validator, main, gemini>>

\* retrieval.py 61-65 and 75-79: generate_embedding or the vector search raises; chat has no
\* handler, and chat_endpoint (api/chat.py 94-99) answers 500
ChatRetrievalRaises ==
    /\ \E c \in 1 .. Len(chat) :
          /\ chat[c].pc = "retrieve"
          /\ chat' = Without(chat, c)
    /\ UNCHANGED <<parser_vars, chunker, validator, main, gemini, store>>

\* llm.py 122-136 and chat.py 73-85: generate_text has returned, or has raised and
\* generate_response returns the error answer; the assistant message is added
ChatGenerated ==
    /\ \E c \in 1 .. Len(chat) :
          /\ chat[c].pc = "generate"
          /\ store' = add_message(store, chat[c].session, "assistant")
          /\ chat' = Without(chat, c)
    /\ UNCHANGED <<parser_vars, chunker, validator, main, gemini>>

NextChat ==
    \/ Tick \/ GetSessionHistory \/ DeleteSession
    \/ ChatBegin \/ ChatRetrieved \/ ChatRetrievalRaises \/ ChatGenerated

SpecChat == InitChat /\ [][NextChat]_vars

-----------------------------------------------------------------------------
(* Vocabulary of the properties: the class of a raw line under the rules in force, *)
(* stated from the rule list of the design and not from ProcessChunk               *)

\* the result of handing line L to the loop body in the current state
Step(L) == ProcessChunk(parsing_rules, state, legal_document, L)

IsEndLine(L) == L = parsing_rules.end_marker
IsSkipLine(L) == PAGE_PATTERN(L) \/ TRIPPLE_DOTS_PATTERN(L) \/ TRIPPLE_DOT_SPACES_PATTERN(L)
IsSectionLine(L) == CHAPTER_PATTERN(L) \/ SECTION_PATTERN(L) \/ SUBSECTION_PATTERN(L)
IsArticleLine(L) == \E n \in Numbers : L = <<"Pasal", SP, Num(n)>>
IsBareArticleLine(L) == L = <<"Pasal">>

\* the line is not claimed by rules 1 to 5
PastArticleRules(L) ==
    ~IsEndLine(L) /\ ~IsSkipLine(L) /\ ~IsSectionLine(L) /\ ~IsArticleLine(L) /\ ~IsBareArticleLine(L)

\* the number a bare article keyword must be followed by
NextArticleNumber == IF state.article_number = None THEN 1 ELSE state.article_number + 1

\* the line is the pure digit token of the next article in sequence
IsNextArticleDigit(L) == \E n \in Numbers : L = <<Num(n)>> /\ n = NextArticleNumber

\* the paragraph-marker line with candidate c in the syntax of the section being parsed
ParagraphLine(c) ==
    IF parsing_rules = body_parsing_rules
    THEN <<"(", Num(c), ")">>
    ELSE <<"Ayat", SP, "(", Num(c), ")">>

\* the line, examined by rule 7, has the shape of a paragraph marker with candidate c
IsParagraphLine(L, c) ==
    /\ L = ParagraphLine(c)
    /\ ~state.prev_was_article_wo_number
    /\ PastArticleRules(L)

\* article numbers of a sequence of items never go down
NonDecreasing(doc) ==
    \A i \in 1 .. Len(doc) - 1 : doc[i].article_number <= doc[i + 1].article_number

-----------------------------------------------------------------------------
(* C1: once a line equal to the end-of-section marker has been processed, no later   *)
(* line, on the same page or on a later page, changes the parser state or the        *)
(* output: only the final flush of the state the marker found may still add an item. *)
C1_NothingAfterEndMarker ==
    [][end_seen =>
          /\ state' = state
          /\ \/ legal_document' = legal_document
             \/ pc' = "done" /\ legal_document' = _flush_buffer(legal_document, state)]_vars

(* C2: the article numbers of the items returned by parse are non-decreasing in      *)
(* output order, for every input.                                                    *)
C2_ArticlesNonDecreasing ==
    NonDecreasing(legal_document)

(* C2 as amended: the article numbers of the returned items are non-decreasing       *)
(* whenever no numbered-article line of the input carries a number below the article *)
(* current when it is processed; an article started through a bare keyword always    *)
(* carries the previous number plus one.                                             *)
C2_ArticlesNonDecreasingOnAscendingInput ==
    articles_ascending => NonDecreasing(legal_document)

C2_Witness ==
    /\ pc = "done"
    /\ articles_ascending
    /\ Len(legal_document) >= 2
    /\ legal_document[1].article_number < legal_document[2].article_number
    /\ branch = "return"
    /\ state.article_number = legal_document[2].article_number

-----------------------------------------------------------------------------
\* the candidate continues the paragraph numbering of the current article
Sequential(c) ==
    \/ state.paragraph_number = None /\ c = 1
    \/ state.paragraph_number # None /\ c = state.paragraph_number + 1

Observable(r) ==
    <<r.legal_document, r.state.article_number, r.state.paragraph_number, r.state.text, r.state.in_article_section>>

(* C5: from every reachable state, the bare article keyword followed by the digit    *)
(* line of the next article in sequence gives the same output, article number,       *)
(* paragraph number, buffer and in-article flag as the single numbered-article line, *)
(* inside and outside an article alike.                                              *)
C5_BareMarkerThenNumberEqualsNumberedArticle ==
    \A n \in Numbers :
        n = NextArticleNumber =>
            LET bare == Step(<<"Pasal">>)
                two == ProcessChunk(parsing_rules, bare.state, bare.legal_document, <<Num(n)>>)
                one == Step(<<"Pasal", SP, Num(n)>>)
            IN /\ Observable(two) = Observable(one)
               /\ two.state.article_number = n
               /\ two.state.in_article_section

C5_Witness ==
    /\ branch = "article_after_wo_number"
    /\ state.article_number = 2
    /\ Len(legal_document) = 1
    /\ legal_document[1].article_number = 1

(* C6: when the line after a bare article keyword is not the next sequential article *)
(* number, no article starts and article and paragraph numbers are unchanged; the    *)
(* line is ordinary content with the keyword put back in front of it: inside an      *)
(* article the buffer gains the keyword, one space and the line; the line is         *)
(* processed without an exception.                                                   *)
C6_UnconfirmedBareMarkerIsProse ==
    \A L \in Lines(parsing_rules) :
        (state.prev_was_article_wo_number /\ PastArticleRules(L) /\ ~IsNextArticleDigit(L)) =>
            LET r == Step(L)
                kept == <<"Pasal", SP>> \o L
            IN /\ r.branch # "ValueError"
               /\ r.state.article_number = state.article_number
               /\ r.state.paragraph_number = state.paragraph_number
               /\ r.state.in_article_section = state.in_article_section
               /\ r.legal_document = legal_document
               /\ r.state.text = IF ~state.in_article_section THEN state.text
                                 ELSE IF state.text = <<>> THEN kept
                                 ELSE state.text \o <<SP>> \o kept

(* C7: the pending flag set by a bare article keyword governs only the next line:    *)
(* once that line has been processed, whatever its class, the flag is clear (unless  *)
(* that line is itself a bare keyword, which sets it anew).                          *)
C7_PendingFlagLastsOneLine ==
    [][(/\ state.prev_was_article_wo_number
        /\ nlines' = nlines + 1
        /\ branch' \notin {"header", "article_wo_number"})
          => ~state'.prev_was_article_wo_number]_vars

(* C8: a numbered-article line processed while an article is open (whatever its      *)
(* number, 0 included) and the trimmed buffer is non-empty appends the item of the   *)
(* open article, then opens the new article with null paragraph and empty buffer.    *)
C8_ArticleStartFlushesOpenArticle ==
    \A n \in Numbers :
        (state.article_number # None /\ Strip(state.text) # <<>>) =>
            LET r == Step(<<"Pasal", SP, Num(n)>>)
            IN /\ r.legal_document =
                    Append(legal_document,
                           [article_number |-> state.article_number,
                            paragraph_number |-> state.paragraph_number,
                            text |-> Strip(state.text)])
               /\ r.state.article_number = n
               /\ r.state.paragraph_number = None
               /\ r.state.text = <<>>
               /\ r.state.in_article_section

\* the line reaches rule 8 as prose or as a list item
IsContentLine(L) ==
    /\ PastArticleRules(L)
    /\ ~(state.prev_was_article_wo_number /\ IsNextArticleDigit(L))
    /\ \A c \in Numbers : ~IsParagraphLine(L, c)

(* C9: a section-boundary line changes only the in-article flag (to outside): no     *)
(* item, same article number, paragraph number and buffer; content lines after it    *)
(* are not appended, and only an article start re-enters the article.                *)
C9_SectionBoundaryOnlyLeavesArticle ==
    \A L \in Lines(parsing_rules) :
        LET r == Step(L)
        IN /\ IsSectionLine(L) =>
                /\ r.state = [state EXCEPT !.in_article_section = FALSE]
                /\ r.legal_document = legal_document
           /\ (~state.in_article_section /\ IsContentLine(L)) =>
                /\ r.state.text = state.text
                /\ r.legal_document = legal_document
                /\ ~r.state.in_article_section
           /\ (~state.in_article_section /\ r.state.in_article_section) =>
                \/ IsArticleLine(L)
                \/ state.prev_was_article_wo_number /\ IsNextArticleDigit(L)

C9_Witness ==
    /\ branch = "dropped"
    /\ ~state.in_article_section
    /\ state.text # <<>>
    /\ state.article_number # None

(* C10: a line matching a skip pattern leaves the whole parser state and the output  *)
(* unchanged, before any later rule is tried: also with the lookahead flag pending,  *)
(* inside an article, and when the line has the shape of a list item.                *)
C10_SkipLineChangesNothing ==
    \A L \in Lines(parsing_rules) :
        IsSkipLine(L) =>
            /\ Step(L).state = state
            /\ Step(L).legal_document = legal_document

C10_Witness ==
    /\ branch = "skip"
    /\ state.prev_was_article_wo_number
    /\ state.in_article_section
    /\ state.text # <<>>

-----------------------------------------------------------------------------
\* the line matches the ordered-list pattern of the section being parsed
IsListLine(L) ==
    IF parsing_rules = body_parsing_rules
    THEN BODY_ORDERED_LIST_PATTERN(L)
    ELSE ELUCIDATION_ORDERED_LIST_PATTERN(L)

\* the line as it is appended: behind a pending bare keyword the keyword is put back
AppendedLine(L) == IF state.prev_was_article_wo_number THEN <<"Pasal", SP>> \o L ELSE L

(* C11: inside an article a non-empty content line is appended to the buffer with a  *)
(* newline when the line being appended matches the ordered-list pattern and with    *)
(* one space otherwise, and with no separator when the buffer is empty; the class of *)
(* the appended line alone decides, so prose after a list line is space-joined; the  *)
(* line is processed without an exception.                                           *)
C11_SeparatorByClassOfAppendedLine ==
    \A L \in Lines(parsing_rules) :
        (state.in_article_section /\ IsContentLine(L) /\ L # <<>>) =>
            LET r == Step(L)
                A == AppendedLine(L)
            IN /\ r.branch # "ValueError"
               /\ r.legal_document = legal_document
               /\ r.state.text = IF state.text = <<>> THEN A
                                 ELSE IF IsListLine(A) THEN state.text \o <<NL>> \o A
                                 ELSE state.text \o <<SP>> \o A

-----------------------------------------------------------------------------
\* the text consists of whitespace only (the empty text included)
WhitespaceOnly(t) == \A i \in 1 .. Len(t) : t[i] \in Whitespace

\* the text neither starts nor ends with whitespace
Trimmed(t) == t = <<>> \/ (t[1] \notin Whitespace /\ t[Len(t)] \notin Whitespace)

(* C12: every item of the output has a non-empty text without leading or trailing    *)
(* whitespace; a flush appends exactly one item (article number, paragraph number,   *)
(* trimmed buffer) when the trimmed buffer is non-empty, and nothing when the buffer *)
(* is empty or whitespace only.                                                      *)
C12_ItemsNonEmptyAndTrimmed ==
    /\ \A i \in 1 .. Len(legal_document) :
          legal_document[i].text # <<>> /\ Trimmed(legal_document[i].text)
    /\ LET flushed == _flush_buffer(legal_document, state)
       IN IF WhitespaceOnly(state.text)
          THEN flushed = legal_document
          ELSE /\ Len(flushed) = Len(legal_document) + 1
               /\ SubSeq(flushed, 1, Len(legal_document)) = legal_document
               /\ flushed[Len(flushed)].article_number = state.article_number
               /\ flushed[Len(flushed)].paragraph_number = state.paragraph_number
               /\ flushed[Len(flushed)].text = Strip(state.text)
               /\ Trimmed(Strip(state.text)) /\ Strip(state.text) # <<>>

C12_Witness ==
    /\ pc = "done"
    /\ state.text = <<SP, SP, "teks">>
    /\ legal_document = <<LegalDocumentItem(1, None, <<"teks">>)>>

-----------------------------------------------------------------------------
(* C13: at end of input the open unit is emitted: when parse has returned and the    *)
(* buffer held text, the last item of the output is (current article number, current *)
(* paragraph number, trimmed buffer); an input made of one numbered article line     *)
(* followed only by prose lines t1..tn, on one page or spread over several, returns  *)
(* exactly one item, whose text is t1..tn joined by single spaces.                   *)
C13_OpenUnitEmittedAtEndOfInput ==
    pc = "done" =>
        /\ ~WhitespaceOnly(state.text) =>
              /\ legal_document # <<>>
              /\ legal_document[Len(legal_document)] =
                    [article_number |-> state.article_number,
                     paragraph_number |-> state.paragraph_number,
                     text |-> Strip(state.text)]
        /\ (prose_run.shape = "article_then_prose" /\ prose_run.text # <<>>) =>
              legal_document =
                  <<[article_number |-> prose_run.article, paragraph_number |-> None, text |-> prose_run.text]>>

C13_Witness ==
    /\ pc = "done"
    /\ prose_run.shape = "article_then_prose"
    /\ prose_run.split
    /\ prose_run.text = <<"teks", SP, "teks">>
    /\ legal_document = <<LegalDocumentItem(1, None, <<"teks", SP, "teks">>)>>

-----------------------------------------------------------------------------
(* C14: the first header_lines_to_skip lines of every page never influence the       *)
(* parser state or the output, whatever they hold (the end marker, an article or a   *)
(* paragraph marker); every later line of the page is classified.                    *)
C14_HeaderLinesHaveNoInfluence ==
    [][/\ branch' = "header" =>
            /\ state' = state
            /\ legal_document' = legal_document
            /\ pc' = pc
            /\ end_seen' = end_seen
       /\ nlines' = nlines + 1 => (branch' = "header" <=> pos < header_lines_to_skip)]_vars

C14_Witness ==
    /\ branch = "header"
    /\ header_chunk = parsing_rules.end_marker
    /\ pc = "chunks"
    /\ ~end_seen
    /\ state.in_article_section
    /\ state.text # <<>>

-----------------------------------------------------------------------------
(* C15: parse is deterministic and keeps nothing between calls: throughout a call,   *)
(* and so at its return, the parser state and the output are those of a new parser   *)
(* object given the same lines and rules, also when the object has parsed another    *)
(* section before (body, then elucidation).                                          *)
C15_CallResultIndependentOfEarlierCalls ==
    /\ state = fresh.state
    /\ legal_document = fresh.legal_document

C15_Witness ==
    /\ previous_rules = "body"
    /\ parsing_rules = elucidation_parsing_rules
    /\ pc = "done"
    /\ legal_document # <<>>

-----------------------------------------------------------------------------
(* C16: parse never ends in an error: whatever mixture of marker-like and malformed  *)
(* lines the pages hold, no line makes the call raise.                               *)
C16_ParseNeverRaises ==
    pc # "error"

-----------------------------------------------------------------------------
(* C17: the output of parse is append-only: no step of a call removes, reorders or   *)
(* modifies an item already appended; the output after each line extends the output  *)
(* before it.                                                                        *)
C17_OutputIsAppendOnly ==
    [][/\ Len(legal_document') >= Len(legal_document)
       /\ SubSeq(legal_document', 1, Len(legal_document)) = legal_document]_vars

C17_Witness ==
    /\ branch = "article"
    /\ Len(legal_document) = 1
    /\ legal_document[1].article_number = 1
    /\ state.article_number = 2

-----------------------------------------------------------------------------
(* C18: every chunk make_chunks returns, the last one included, re-tokenizes to at   *)
(* most max_chunk_tokens tokens; a text of 350 tokens with max_chunk_tokens = 300    *)
(* and overlap_tokens = 30 gives exactly two chunks, covering the token ranges       *)
(* [0, 300) and [270, 350).                                                          *)
C18_ChunksWithinTokenBudget ==
    chunker.pc = "done" =>
        /\ \A i \in 1 .. Len(chunker.chunks) :
              Len(tokenize(chunker.chunks[i])) <= chunker.max_chunk_tokens
        /\ (/\ Len(tokenize(chunker.text)) = 350
            /\ chunker.max_chunk_tokens = 300
            /\ chunker.overlap_tokens = 30) =>
              /\ Len(chunker.chunks) = 2
              /\ tokenize(chunker.chunks[1]) = SubSeq(tokenize(chunker.text), 1, 300)
              /\ tokenize(chunker.chunks[2]) = SubSeq(tokenize(chunker.text), 271, 350)

C18_Witness ==
    /\ chunker.pc = "done"
    /\ chunker.text = LongText
    /\ Len(chunker.tokens) = 350
    /\ Len(chunker.chunks) = 2
    /\ Len(tokenize(chunker.chunks[2])) = 80

-----------------------------------------------------------------------------
\* the text is the given tokens joined by single spaces
IsSpaceJoined(text, toks) ==
    /\ Len(text) = IF toks = <<>> THEN 0 ELSE 2 * Len(toks) - 1
    /\ \A i \in 1 .. Len(text) :
          text[i] = IF i % 2 = 1 THEN toks[(i + 1) \div 2] ELSE SP

\* the tokens at the 0-based positions [from, to) of the token sequence
TokensAt(toks, from, to) == SubSeq(toks, from + 1, to)

(* C19: when the text has more than max_chunk_tokens tokens, the chunks returned are *)
(* the windows i = 0, 1, ... over the token positions                                *)
(* [i * (max - overlap), min(i * (max - overlap) + max, total)), in that order, each *)
(* the window's tokens joined by single spaces; the last window is the first whose   *)
(* end reaches the end of the token sequence, and none follows it.                   *)
C19_WindowsByStride ==
    (chunker.pc = "done" /\ Len(tokenize(chunker.text)) > chunker.max_chunk_tokens) =>
        LET toks == tokenize(chunker.text)
            total == Len(toks)
            stride == chunker.max_chunk_tokens - chunker.overlap_tokens
            from(i) == i * stride
            to(i) == IF from(i) + chunker.max_chunk_tokens <= total
                     THEN from(i) + chunker.max_chunk_tokens ELSE total
            k == Len(chunker.chunks)
        IN /\ k >= 1
           /\ \A i \in 0 .. k - 1 :
                 /\ IsSpaceJoined(chunker.chunks[i + 1], TokensAt(toks, from(i), to(i)))
                 /\ to(i) = total <=> i = k - 1

C19_Witness ==
    /\ chunker.pc = "done"
    /\ Len(chunker.chunks) = 3
    /\ chunker.overlap_tokens = 1
    /\ chunker.max_chunk_tokens = 3
    /\ Len(chunker.chunks[3]) < Len(chunker.chunks[2])

-----------------------------------------------------------------------------
(* C20: whenever make_chunks returns two or more chunks, consecutive chunks share at *)
(* least overlap_tokens tokens: every chunk after the first begins with the last     *)
(* overlap_tokens tokens of the chunk before it.                                     *)
C20_ConsecutiveChunksOverlap ==
    (chunker.pc = "done" /\ Len(chunker.chunks) >= 2) =>
        \A i \in 1 .. Len(chunker.chunks) - 1 :
            LET before == tokenize(chunker.chunks[i])
                after == tokenize(chunker.chunks[i + 1])
                n == chunker.overlap_tokens
            IN /\ Len(before) >= n
               /\ Len(after) >= n
               /\ SubSeq(after, 1, n) = SubSeq(before, Len(before) - n + 1, Len(before))

C20_Witness ==
    /\ chunker.pc = "done"
    /\ Len(chunker.chunks) >= 3
    /\ chunker.overlap_tokens = 2
    /\ chunker.max_chunk_tokens = 3
    /\ \E i \in 1 .. Len(chunker.tokens) - 1 : chunker.tokens[i] # chunker.tokens[i + 1]

-----------------------------------------------------------------------------
(* C21: when the text has at most max_chunk_tokens tokens (the count equal to the    *)
(* budget included), make_chunks returns exactly one chunk, and that chunk is the    *)
(* text it was given, piece for piece: blanks are kept as they were, the tokens are  *)
(* not joined anew.                                                                  *)
C21_TextWithinBudgetReturnedUnchanged ==
    (chunker.pc = "done" /\ Len(tokenize(chunker.text)) <= chunker.max_chunk_tokens) =>
        chunker.chunks = <<chunker.text>>

C21_Witness ==
    /\ chunker.pc = "done"
    /\ Len(tokenize(chunker.text)) = chunker.max_chunk_tokens
    /\ chunker.chunks = <<chunker.text>>
    /\ chunker.text # Join(tokenize(chunker.text))
    /\ \E i \in 1 .. Len(chunker.text) - 1 : chunker.text[i] = SP /\ chunker.text[i + 1] = SP

-----------------------------------------------------------------------------
(* Vocabulary of the validation properties, stated over the items of the call *)

ItemIndexes == 1 .. Len(validator.legal_document)
ArticleOf(i) == validator.legal_document[i].article_number
ParagraphOf(i) == validator.legal_document[i].paragraph_number

\* the article numbers observed, null left out
ObservedArticles == {ArticleOf(i) : i \in ItemIndexes} \ {None}

\* the items that carry a paragraph number
WithParagraph == {i \in ItemIndexes : ParagraphOf(i) # None}

\* the paragraph numbers observed for an article
ObservedParagraphs(a) == {ParagraphOf(i) : i \in {j \in WithParagraph : ArticleOf(j) = a}}

\* the values of 1 .. max(observed) that were not observed for an article
ParagraphGap(a) ==
    {p \in 1 .. (CHOOSE x \in ObservedParagraphs(a) : \A y \in ObservedParagraphs(a) : y <= x) :
        p \notin ObservedParagraphs(a)}

\* the sequence lists exactly the members of the set, in ascending order, each once
AscendingListOf(list, S) ==
    /\ {list[i] : i \in 1 .. Len(list)} = S
    /\ \A i \in 1 .. Len(list) - 1 : list[i] < list[i + 1]

Ran(step) ==
    LET order == << "check_total_articles", "check_missing_articles", "check_missing_paragraphs",
                    "check_duplicate_article_paragraphs", "validate_result", "is_valid", "done" >>
        at(name) == CHOOSE n \in 1 .. Len(order) : order[n] = name
    IN \/ validator.pc = "error"
       \/ validator.pc \in {order[n] : n \in 1 .. Len(order)} /\ at(validator.pc) > at(step)

(* C23: total_articles is the number of distinct non-null article numbers among the  *)
(* items: items with a null article number are not counted, and an input made only   *)
(* of such items has total_articles = 0.                                             *)
C23_TotalArticlesCountsNonNullArticles ==
    Ran("check_total_articles") =>
        /\ validator.total_articles = Cardinality(ObservedArticles)
        /\ (\A i \in ItemIndexes : ArticleOf(i) = None) => validator.total_articles = 0

-----------------------------------------------------------------------------
(* C24: missing_articles lists, in ascending order and each once, exactly the        *)
(* numbers of 1 .. expected_total_articles that no item carries as its article       *)
(* number; an observed number above expected_total_articles is not listed, and the   *)
(* empty input gives the whole range.                                                *)
C24_MissingArticlesIsRangeMinusObserved ==
    Ran("check_missing_articles") =>
        /\ AscendingListOf(validator.missing_articles,
                           (1 .. validator.expected_total_articles) \ ObservedArticles)
        /\ \A i \in 1 .. Len(validator.missing_articles) :
              validator.missing_articles[i] <= validator.expected_total_articles
        /\ validator.legal_document = <<>> =>
              validator.missing_articles = [n \in 1 .. validator.expected_total_articles |-> n]

C24_Witness ==
    /\ Ran("check_missing_articles")
    /\ validator.missing_articles = <<3, 5>>
    /\ validator.expected_total_articles = 5
    /\ \E i \in ItemIndexes : ArticleOf(i) = 6

-----------------------------------------------------------------------------
(* C25: when at least one item has a paragraph number, missing_paragraphs maps       *)
(* exactly the articles that have a gap, each to the ascending list of the values of *)
(* 1 .. max(observed paragraph numbers of the article) that were not observed;       *)
(* articles without a paragraph number and articles without a gap are not in the     *)
(* map.                                                                              *)
C25_MissingParagraphsMapsArticlesWithGap ==
    (Ran("check_missing_paragraphs") /\ WithParagraph # {}) =>
        LET map == validator.missing_paragraphs.value
            keys == {map[n][1] : n \in 1 .. Len(map)}
        IN /\ validator.missing_paragraphs.raised = "none"
           /\ Cardinality(keys) = Len(map)
           /\ keys = {a \in {ArticleOf(i) : i \in WithParagraph} : ParagraphGap(a) # {}}
           /\ \A n \in 1 .. Len(map) : AscendingListOf(map[n][2], ParagraphGap(map[n][1]))

C25_Witness ==
    /\ Ran("check_missing_paragraphs")
    /\ validator.missing_paragraphs = Returned(<< <<3, <<2, 3, 4>> >>, <<4, <<1, 2, 3, 4>> >> >>)
    /\ \E i \in ItemIndexes : ArticleOf(i) = 1 /\ ParagraphOf(i) = None
    /\ \E i \in ItemIndexes : ArticleOf(i) = 2 /\ ParagraphOf(i) = 2

-----------------------------------------------------------------------------
(* C26: the paragraph-gap check ends with an error, and not with an empty map,       *)
(* exactly when no item of the input has a paragraph number, the empty input         *)
(* included; with at least one paragraph number it returns a map.                    *)
C26_ParagraphCheckFailsIffNoParagraphNumber ==
    Ran("check_missing_paragraphs") =>
        /\ validator.missing_paragraphs.raised # "none" <=> WithParagraph = {}
        /\ validator.legal_document = <<>> => validator.missing_paragraphs.raised = "ValueError"

C26_Witness ==
    /\ Ran("check_missing_paragraphs")
    /\ validator.missing_paragraphs.raised = "ValueError"
    /\ Len(validator.legal_document) = 2
    /\ \E i \in ItemIndexes : ArticleOf(i) = 1

-----------------------------------------------------------------------------
(* C27: validate_result returns a fully computed report for every item sequence:     *)
(* when the paragraph-gap check fails because no item has a paragraph number, the    *)
(* total_articles and missing_articles already computed are still returned to the    *)
(* caller.                                                                           *)
C27_ReportReturnedForEveryInput ==
    Ran("validate_result") =>
        /\ validator.report.raised = "none"
        /\ validator.report.total_articles = validator.total_articles
        /\ validator.report.missing_articles = validator.missing_articles

-----------------------------------------------------------------------------
\* the key of an item: its article number and its paragraph number, 0 for null
KeyOf(i) == <<ArticleOf(i), IF ParagraphOf(i) = None THEN 0 ELSE ParagraphOf(i)>>

(* C28: duplicate_article_paragraphs lists, in ascending order and each once however *)
(* often it occurs, exactly the keys (article_number, paragraph_number, 0 standing   *)
(* for a null paragraph) that occur more than once among the items.                  *)
C28_DuplicatesAreKeysOccurringTwice ==
    Ran("check_duplicate_article_paragraphs") =>
        LET list == validator.duplicate_article_paragraphs.value
        IN /\ validator.duplicate_article_paragraphs.raised = "none"
           /\ {list[n] : n \in 1 .. Len(list)} =
                 {KeyOf(i) : i \in {j \in ItemIndexes : \E k \in ItemIndexes : k # j /\ KeyOf(k) = KeyOf(j)}}
           /\ \A n \in 1 .. Len(list) - 1 :
                 \/ list[n][1] < list[n + 1][1]
                 \/ list[n][1] = list[n + 1][1] /\ list[n][2] < list[n + 1][2]

-----------------------------------------------------------------------------
(* C29: is_valid(expected) is true if and only if total_articles = expected and      *)
(* missing_articles, missing_paragraphs and duplicate_article_paragraphs are all     *)
(* empty.                                                                            *)
C29_IsValidIffTotalMatchesAndNothingReported ==
    validator.pc = "done" =>
        (validator.valid <=>
            /\ validator.report.total_articles = validator.is_valid_expected
            /\ Len(validator.report.missing_articles) = 0
            /\ Len(validator.report.missing_paragraphs) = 0
            /\ Len(validator.report.duplicate_article_paragraphs) = 0)

C29_Witness ==
    /\ validator.pc = "done"
    /\ validator.valid
    /\ validator.report.total_articles = 2
    /\ Len(validator.legal_document) = 3

-----------------------------------------------------------------------------
\* the group of a chunk record
GroupOf(record) == <<record.article_number, record.paragraph_number, record.chunk_type>>

(* C22: in the chunk records produced from the items of the input files, the         *)
(* chunk_index values within each (article_number, paragraph_number, chunk_type)     *)
(* group are exactly 0, 1, ..., k - 1, without repetition and without gap, whatever  *)
(* items the files hold.                                                             *)
C22_ChunkIndexesContiguousPerGroup ==
    main.kind = "chunker" =>
        \A n \in 1 .. Len(main.all_chunks) :
            LET group == {m \in 1 .. Len(main.all_chunks) : GroupOf(main.all_chunks[m]) = GroupOf(main.all_chunks[n])}
            IN {main.all_chunks[m].chunk_index : m \in group} = 0 .. Cardinality(group) - 1

-----------------------------------------------------------------------------
\* the report has been returned by validate_result
Computed(report) == report.raised = "none" /\ report.total_articles # None

\* the report shows the expected total and no finding
ShowsNoFinding(report, expected) ==
    /\ report.total_articles = expected
    /\ Len(report.missing_articles) = 0
    /\ Len(report.missing_paragraphs) = 0
    /\ Len(report.duplicate_article_paragraphs) = 0

(* C30: the parse pipeline writes no output file unless the reports of the body and  *)
(* of the elucidation are both valid: once a report is invalid nothing is written    *)
(* and the run ends with exit status 1; the chunk pipeline writes no chunk file when *)
(* the validation of the chunks has failed.                                          *)
C30_NothingWrittenUnlessValid ==
    /\ main.kind = "parser" =>
          LET expected == main.expected_total_articles
              invalid(report) == Computed(report) /\ ~ShowsNoFinding(report, expected)
          IN /\ (invalid(main.body_report) \/ invalid(main.elucidation_report)) =>
                    /\ main.written = <<>>
                    /\ main.pc = "exit" => main.exit_status = 1
             /\ main.written # <<>> =>
                    /\ Computed(main.body_report) /\ ShowsNoFinding(main.body_report, expected)
                    /\ Computed(main.elucidation_report) /\ ShowsNoFinding(main.elucidation_report, expected)
    /\ main.kind = "chunker" =>
          /\ main.written # <<>> => main.validation_passed
          /\ (main.pc = "exit" /\ ~main.validation_passed) => main.written = <<>>

C30_Witness ==
    /\ main.kind = "parser"
    /\ main.pc = "exit"
    /\ main.exit_status = 1
    /\ main.written = <<>>
    /\ Computed(main.body_report) /\ ShowsNoFinding(main.body_report, main.expected_total_articles)
    /\ Computed(main.elucidation_report)
    /\ Len(main.elucidation_report.duplicate_article_paragraphs) = 1

-----------------------------------------------------------------------------
(* GeminiClient: attempts and retries *)

\* the API answered that the quota or the rate limit is exceeded
IsQuotaError(e) == e.class = "ClientError" /\ e.quota_text

\* a transient network error
IsNetworkError(e) == e.class \in {"ConnectionError", "TimeoutError"} /\ ~e.quota_text

\* attempt i of the running operation was followed by a sleep or by another attempt
Retried(i) == i < gemini.attempt_number \/ (i = gemini.attempt_number /\ gemini.pc = "sleep")

\* C31: every operation of the Gemini client makes at most three attempts, an attempt
\* that met a transient network error is followed by another one while fewer than three
\* were made, and an attempt that met a quota or rate-limit error is never followed by
\* another one: the call ends on that attempt.
C31_AtMostThreeAttemptsQuotaNeverRetried ==
    /\ gemini.attempt_number <= 3
    /\ \A i \in 1 .. Len(gemini.raised) :
          /\ (IsNetworkError(gemini.raised[i].api) /\ i < 3) => Retried(i)
          /\ IsQuotaError(gemini.raised[i].api) => ~Retried(i)

-----------------------------------------------------------------------------
(* _append_text and the empty line *)

\* the line reaches the append step (core.py 186-188) in the current state: no earlier
\* rule takes the empty line, unless the lookahead flag turns it into "Pasal "
EmptyLineReachesAppend == state.in_article_section /\ ~state.prev_was_article_wo_number

\* C32: _append_text returns the empty string whenever the chunk is empty, whatever the
\* buffer holds and for either separator, and returns the chunk alone when the buffer is
\* empty; so an empty line that reaches the append step inside an article leaves an
\* empty buffer behind, and the text accumulated so far enters no item.
C32_EmptyChunkDiscardsBuffer ==
    /\ \A is_ordered_list \in BOOLEAN :
          /\ _append_text(state.text, <<>>, is_ordered_list) = <<>>
          /\ \A L \in Lines(parsing_rules) : _append_text(<<>>, L, is_ordered_list) = L
    /\ EmptyLineReachesAppend =>
          LET r == Step(<<>>)
          IN /\ r.state.text = <<>>
             /\ r.legal_document = legal_document
             /\ _flush_buffer(legal_document, r.state) = legal_document

C32_Witness ==
    /\ branch = "append"
    /\ state.in_article_section
    /\ state.text = <<>>
    /\ state.article_number = 1
    /\ nlines >= 3
    /\ legal_document = <<>>

-----------------------------------------------------------------------------
(* The session store and the chat sessions *)

\* C33: get_session returns the stored session exactly when the id is known and the
\* time since its last update is within the TTL, and None otherwise; an expired
\* session is gone from the store after that access, a later delete_session for its id
\* returns False, and get_or_create_session with its id returns a session created by
\* that call, under another id.
C33_GetSessionNeverReturnsExpired ==
    /\ store.last.op = "get_session" =>
          /\ store.last.result =
                IF store.last.known /\ store.last.age <= store.ttl_hours
                THEN store.last.session_id ELSE NoSession
          /\ (store.last.known /\ store.last.age > store.ttl_hours) =>
                /\ store.last.session_id \in store.expired
                /\ ~Known(store, store.last.session_id)
    /\ \A session_id \in store.expired : ~Known(store, session_id)
    /\ (store.last.op = "delete_session" /\ store.last.session_id \in store.expired) =>
          store.last.result = FALSE
    /\ (store.last.op = "get_or_create_session" /\ store.last.session_id \in store.expired) =>
          /\ store.last.result # store.last.session_id
          /\ store.last.result = Uuid(store.last.objects + 1)
          /\ Known(store, store.last.result)

C33_Witness ==
    /\ store.last.op = "get_or_create_session"
    /\ store.last.session_id \in store.expired
    /\ ~store.last.known
    /\ store.last.result # store.last.session_id
    /\ Len(store.objects) = 2

\* user, assistant, user, assistant, ...
Alternating(messages) ==
    \A i \in 1 .. Len(messages) : messages[i] = IF i % 2 = 1 THEN "user" ELSE "assistant"

\* a chat call on the session has added its user message and has not returned or raised
InProgress(session_id) ==
    \E c \in 1 .. Len(chat) : chat[c].session = session_id

\* C40: whenever no chat call is in progress on a session, its messages alternate
\* user, assistant, user, assistant, ... from a user message on, whatever chat calls
\* were made on it, failed and overlapping ones included.
C40_MessagesAlternate ==
    \A k \in 1 .. Len(store.objects) :
        ~InProgress(store.objects[k].id) => Alternating(store.objects[k].messages)

-----------------------------------------------------------------------------
(* Content accepted into the buffer *)

\* the buffer after the step begins with the buffer before it
BufferKept(before, after) ==
    Len(before) <= Len(after) /\ SubSeq(after, 1, Len(before)) = before

\* the step has emitted the buffer as the text of one new item
BufferEmitted(before, doc, after_doc) ==
    /\ Len(after_doc) = Len(doc) + 1
    /\ SubSeq(after_doc, 1, Len(doc)) = doc
    /\ after_doc[Len(after_doc)].text = Strip(before)

\* C34: no accepted content is lost: whatever line follows, the text accumulated in the
\* buffer either stays in the buffer or becomes the text of one new item, and the
\* buffer left at the end of the input is emitted; so every appended line is in the
\* text of exactly one item of the output.
C34_NoAcceptedContentLost ==
    \A L \in Lines(parsing_rules) :
        \/ Strip(state.text) = <<>>
        \/ BufferKept(state.text, Step(L).state.text)
        \/ BufferEmitted(state.text, legal_document, Step(L).legal_document)

-----------------------------------------------------------------------------
(* The article and paragraph numbers of the items *)

\* the items a step or the final flush adds to the output
Emitted(doc, after_doc) == SubSeq(after_doc, Len(doc) + 1, Len(after_doc))

\* the step just taken started an article: a numbered article line, or the number that
\* confirms a pending bare marker
ArticleStarted(b) == b \in {"article", "article_after_wo_number"}

\* C35: every emitted item has a non-null article number, the article most recently
\* started when it is flushed, and a paragraph number that is null or at least 1;
\* before the first article start nothing is accumulated or emitted; the article number
\* changes and the in-article state is entered only by an article start (a numbered
\* line or a validated bare marker), never by a paragraph marker.
C35_ItemsCarryTheOpenArticle ==
    [][ /\ \A i \in 1 .. Len(Emitted(legal_document, legal_document')) :
              LET item == Emitted(legal_document, legal_document')[i]
              IN /\ item.article_number # None
                 /\ item.article_number = state.article_number
                 /\ item.paragraph_number = None \/ item.paragraph_number >= 1
        /\ state'.article_number = None =>
              /\ state'.text = <<>>
              /\ legal_document' = <<>>
              /\ ~state'.in_article_section
        /\ (~state.in_article_section /\ state'.in_article_section) => ArticleStarted(branch')
        /\ state'.article_number # state.article_number => ArticleStarted(branch')
        /\ ArticleStarted(branch') => state'.in_article_section /\ state'.article_number # None
      ]_vars

C35_Witness ==
    /\ branch = "new_paragraph"
    /\ Len(legal_document) = 1
    /\ legal_document[1].article_number = 1
    /\ legal_document[1].paragraph_number = 1
    /\ state.article_number = 1
    /\ state.paragraph_number = 2

\* the items emitted since the latest article start, the one the step has just emitted
\* included (an article start emits the last item of the stretch it ends)
StretchAfterStep == SubSeq(legal_document', stretch + 1, Len(legal_document'))

\* the step has accepted a paragraph marker
ParagraphAccepted(b) == b \in {"new_paragraph", "pasal_new_paragraph"}

\* C36: between two consecutive article starts the accepted paragraph numbers are
\* 1, 2, 3, ... in order, so the items emitted for that stretch have strictly increasing
\* non-null paragraph numbers, or the stretch has a single item with a null paragraph
\* number: a null and a non-null paragraph number never share a stretch.
C36_ParagraphsCountUpWithinAnArticle ==
    [][ /\ ParagraphAccepted(branch') =>
              state'.paragraph_number = IF state.paragraph_number = None THEN 1 ELSE state.paragraph_number + 1
        /\ ArticleStarted(branch') => state'.paragraph_number = None
        /\ state'.paragraph_number # state.paragraph_number => ParagraphAccepted(branch') \/ ArticleStarted(branch')
        /\ \A i, j \in 1 .. Len(StretchAfterStep) :
              i < j =>
                 /\ StretchAfterStep[i].paragraph_number # None
                 /\ StretchAfterStep[j].paragraph_number # None
                 /\ StretchAfterStep[i].paragraph_number < StretchAfterStep[j].paragraph_number
      ]_vars

C36_Witness ==
    /\ branch = "article"
    /\ stretch = 2
    /\ Len(legal_document) = 2
    /\ legal_document[1].paragraph_number = 1
    /\ legal_document[2].paragraph_number = 2

-----------------------------------------------------------------------------
(* C37: with header_lines_to_skip = 0 and no end marker in the input, where the input *)
(* is cut into pages has no influence: the parser state and the output are those of   *)
(* the loop body folded over the concatenation of all pages' lines.                   *)
C37_PageBoundariesHaveNoInfluence ==
    (header_lines_to_skip = 0 /\ ~end_seen) =>
        /\ state.article_number = fresh.state.article_number
        /\ state.paragraph_number = fresh.state.paragraph_number
        /\ state.text = fresh.state.text
        /\ state.in_article_section = fresh.state.in_article_section
        /\ state.prev_was_article_wo_number = fresh.state.prev_was_article_wo_number
        /\ Len(legal_document) = Len(fresh.legal_document)
        /\ \A i \in 1 .. Len(legal_document) : legal_document[i] = fresh.legal_document[i]

\* an article whose prose runs over a page boundary has been returned as one item
C37_Witness ==
    /\ header_lines_to_skip = 0
    /\ ~end_seen
    /\ pc = "done"
    /\ prose_run.shape = "article_then_prose"
    /\ prose_run.split
    /\ Len(legal_document) = 1
    /\ legal_document[1].text = <<"teks", SP, "teks">>

-----------------------------------------------------------------------------
(* C38: make_chunks returns for every text when max_chunk_tokens >= 1 and             *)
(* 0 <= overlap_tokens < max_chunk_tokens, because every pass through the loop that   *)
(* does not return moves the window start forward; when the text has more than        *)
(* max_chunk_tokens tokens and overlap_tokens >= max_chunk_tokens, no pass moves the   *)
(* window start forward and the call never returns.                                   *)
OverlapBelowBudget ==
    /\ chunker.max_chunk_tokens >= 1
    /\ chunker.overlap_tokens >= 0
    /\ chunker.overlap_tokens < chunker.max_chunk_tokens

OverlapStallsLoop ==
    /\ Len(tokenize(chunker.text)) > chunker.max_chunk_tokens
    /\ chunker.overlap_tokens >= chunker.max_chunk_tokens

LoopPassed == chunker.pc = "while" /\ chunker'.pc = "while"

C38_ReturnsIffWindowStartAdvances ==
    /\ OverlapBelowBudget => <>(chunker.pc = "done")
    /\ [][(OverlapBelowBudget /\ LoopPassed) => chunker'.start_idx > chunker.start_idx]_vars
    /\ [][(OverlapStallsLoop /\ LoopPassed) => chunker'.start_idx <= chunker.start_idx]_vars
    /\ [](OverlapStallsLoop => chunker.pc # "done")

\* a call with an overlap below the budget has returned after three passes
C38_Witness ==
    /\ OverlapBelowBudget
    /\ chunker.overlap_tokens >= 1
    /\ chunker.pc = "done"
    /\ Len(chunker.chunks) >= 3

-----------------------------------------------------------------------------
(* C39: for 0 <= overlap_tokens < max_chunk_tokens the chunks returned cover the     *)
(* tokens of the text without gaps: the first chunk starts at the first token, each   *)
(* later chunk starts overlap_tokens tokens before the end of the one before it, the  *)
(* last chunk ends at the last token, every token position lies in some chunk, and    *)
(* the tokens of the first chunk followed by the tokens of each later chunk without   *)
(* its first overlap_tokens tokens are the tokens of the text.                        *)
ChunkTokens(k) == tokenize(chunker.chunks[k])

Drop(seq, n) == SubSeq(seq, n + 1, Len(seq))

\* the tokens of chunks 1 .. k, the overlaps removed
RECURSIVE Rebuilt(_)
Rebuilt(k) ==
    IF k = 0 THEN <<>>
    ELSE IF k = 1 THEN ChunkTokens(1)
    ELSE Rebuilt(k - 1) \o Drop(ChunkTokens(k), chunker.overlap_tokens)

\* the number of tokens before chunk k when each chunk starts overlap_tokens tokens
\* before the end of the one before it
RECURSIVE ChunkStart(_)
ChunkStart(k) ==
    IF k = 1 THEN 0
    ELSE ChunkStart(k - 1) + Len(ChunkTokens(k - 1)) - chunker.overlap_tokens

ChunkEnd(k) == ChunkStart(k) + Len(ChunkTokens(k))

C39_ChunksCoverTheTokens ==
    (chunker.pc = "done" /\ OverlapBelowBudget) =>
        LET n == Len(chunker.chunks)
            tokens == tokenize(chunker.text)
        IN /\ n >= 1
           /\ \A k \in 1 .. n :
                 /\ ChunkStart(k) >= 0
                 /\ ChunkEnd(k) <= Len(tokens)
                 /\ ChunkTokens(k) = PySlice(tokens, ChunkStart(k), ChunkEnd(k))
           /\ ChunkEnd(n) = Len(tokens)
           /\ \A position \in 1 .. Len(tokens) :
                 \E k \in 1 .. n : ChunkStart(k) < position /\ position <= ChunkEnd(k)
           /\ Rebuilt(n) = tokens

\* three overlapping chunks have been returned, the last one shorter than the others
C39_Witness ==
    /\ chunker.pc = "done"
    /\ OverlapBelowBudget
    /\ chunker.overlap_tokens >= 1
    /\ Len(chunker.chunks) = 3
    /\ Len(ChunkTokens(3)) < Len(ChunkTokens(2))

====
